---- MODULE Spec2Model ----
(***************************************************************************)
(* Diagnostic-trace generator: the session state (StateManager), its       *)
(* termination policy (should_continue) and the orchestrator loop          *)
(* (AgentGenerator.generate).                                              *)
(*                                                                         *)
(* Python values are modelled as follows.                                  *)
(*   - a dict is a sequence of <<key, value>> pairs in insertion order     *)
(*     (keys and values are strings);                                      *)
(*   - an executor result is a record [kind, dict, list]: kind = "dict"    *)
(*     carries the dict, kind = "list" carries a sequence of dicts;        *)
(*   - None is the string NoneValue;                                       *)
(*   - the source's Chinese message strings are written in ASCII (the      *)
(*     comment at each definition gives the source text's meaning).        *)
(***************************************************************************)
EXTENDS Integers, Sequences, FiniteSets, TLC

VARIABLES state, generator, pc, max_steps, stop_reason, raised, planner, call

vars == <<state, generator, pc, max_steps, stop_reason, raised, planner, call>>

(***************************************************************************)
(* Bounds of the model.                                                    *)
(***************************************************************************)
\* cap on the number of StateManager calls in the session-API specification
MaxCalls == 5
\* cap on step_count in the termination-policy specification
MaxPolicySteps == 9
\* cap on len(findings) in the termination-policy specification
MaxPolicyFindings == 2
\* cap on the number of add_execution calls that reuse a tool name there
MaxRepeats == 1
\* largest max_steps the orchestrator is configured with
MaxMaxSteps == 4
\* max_steps of the runs that include the planner's requests
MaxPlanSteps == 3

\* max_steps of the runs with a fan-out step
MaxBatchSteps == 2
\* longest history of the sessions the single calls are made in
MaxHistory == 2
\* most steps of a trace, and most pairs of a step, that a caller of the
\* StructuredOutputGenerator writes
MaxTraceSteps == 2

(***************************************************************************)
(* Python helpers.                                                         *)
(***************************************************************************)
NoneValue == "<None>"

EmptyMap == [k \in {} |-> 0]

\* dict literals
Dict0 == <<>>
Dict1(k, v) == << <<k, v>> >>

HasKey(d, k) == \E i \in DOMAIN d : d[i][1] = k
GetKey(d, k) == d[CHOOSE i \in DOMAIN d : d[i][1] = k][2]

DictResponse(d) == [kind |-> "dict", dict |-> d, list |-> <<>>]
ListResponse(l) == [kind |-> "list", dict |-> <<>>, list |-> l]

\* key.startswith('_'): the keys of the model that do
InternalKeys == {"_type"}

(***************************************************************************)
(* StateManager (src/state_manager.py).  Each method is an operator from   *)
(* the object before the call to the object after it.                      *)
(***************************************************************************)
StateManager_init ==
    [step_count |-> 0,
     executed_tools |-> <<>>,
     observations |-> [k \in {} |-> ""],
     findings |-> <<>>,
     tool_usage_count |-> EmptyMap,
     diagnostic_chain |-> <<>>,
     current_focus |-> NoneValue]

\* the counter as it would be with "= 1" written for "+= 1"
IncrementCount_assign(counts, tool_name) ==
    [n \in (DOMAIN counts) \cup {tool_name} |->
        IF n = tool_name THEN 1 ELSE counts[n]]

\* defaultdict(int): self.tool_usage_count[tool_name] += 1
IncrementCount(counts, tool_name) ==
    [n \in (DOMAIN counts) \cup {tool_name} |->
        IF n = tool_name
        THEN (IF n \in DOMAIN counts THEN counts[n] ELSE 0) + 1
        ELSE counts[n]]

\* tool_response.items() exists only on a dict: a list raises AttributeError
extract_observations_raises(tool_response) == tool_response.kind # "dict"

\* observations[f"{tool_name}_{key}"] = value, for keys not starting with '_';
\* the key f"{tool_name}_{key}" is kept as the pair <<tool_name, key>>
extract_observations(self, tool_name, tool_response) ==
    LET d == tool_response.dict
        new == {<<tool_name, d[i][1]>> : i \in {j \in DOMAIN d : d[j][1] \notin InternalKeys}}
        last(k) == CHOOSE i \in DOMAIN d :
                      /\ d[i][1] = k
                      /\ \A j \in DOMAIN d : d[j][1] = k => j <= i
    IN  IF extract_observations_raises(tool_response)
        THEN self
        ELSE [self EXCEPT !.observations =
                [p \in (DOMAIN self.observations) \cup new |->
                    IF p \in new THEN d[last(p[2])][2] ELSE self.observations[p]]]

\* add_execution as it would be with the step counter left alone
add_execution_no_step(self, tool_name, tool_request, tool_response, reasoning) ==
    LET record == [step |-> self.step_count + 1,
                   tool_name |-> tool_name,
                   tool_request |-> tool_request,
                   tool_response |-> tool_response,
                   reasoning |-> reasoning]
    IN  [self EXCEPT
            !.executed_tools = Append(self.executed_tools, record),
            !.tool_usage_count = IncrementCount(self.tool_usage_count, tool_name)]

add_execution(self, tool_name, tool_request, tool_response, reasoning) ==
    LET record == [step |-> self.step_count + 1,
                   tool_name |-> tool_name,
                   tool_request |-> tool_request,
                   tool_response |-> tool_response,
                   reasoning |-> reasoning]
        recorded == [self EXCEPT
                        !.step_count = self.step_count + 1,
                        !.executed_tools = Append(self.executed_tools, record),
                        !.tool_usage_count = IncrementCount(self.tool_usage_count, tool_name)]
    IN  extract_observations(recorded, tool_name, tool_response)

\* the method as it would be if it derived the severity from the finding:
\* 'high' for an anomaly, 'medium' for every other one
add_finding_by_type(self, finding, severity) ==
    [self EXCEPT !.findings =
        Append(self.findings,
               [finding |-> finding,
                severity |-> IF finding = "anomaly" THEN "high" ELSE "medium",
                step |-> self.step_count])]

add_finding(self, finding, severity) ==
    [self EXCEPT !.findings =
        Append(self.findings,
               [finding |-> finding, severity |-> severity, step |-> self.step_count])]

\* "if next_focus:" is false for None and for the empty string
Truthy(s) == s # NoneValue /\ s # ""

\* the method as it would be with the append inside "if next_focus:"
update_diagnostic_chain_in_if(self, action, result, conclusion, next_focus) ==
    LET chain_item == [step |-> self.step_count,
                       action |-> action,
                       result |-> result,
                       conclusion |-> conclusion,
                       next_focus |-> next_focus]
    IN  IF Truthy(next_focus)
        THEN [self EXCEPT
                !.diagnostic_chain = Append(self.diagnostic_chain, chain_item),
                !.current_focus = next_focus]
        ELSE self

update_diagnostic_chain(self, action, result, conclusion, next_focus) ==
    LET chain_item == [step |-> self.step_count,
                       action |-> action,
                       result |-> result,
                       conclusion |-> conclusion,
                       next_focus |-> IF Truthy(next_focus) THEN next_focus ELSE NoneValue]
    IN  [self EXCEPT
            !.diagnostic_chain = Append(self.diagnostic_chain, chain_item),
            !.current_focus = IF Truthy(next_focus) THEN next_focus ELSE self.current_focus]

get_tool_usage_count(self, tool_name) ==
    IF tool_name \in DOMAIN self.tool_usage_count
    THEN self.tool_usage_count[tool_name]
    ELSE 0

\* the check as it would be comparing with another severity word
has_critical_finding_critical(self) ==
    \E i \in DOMAIN self.findings : self.findings[i].severity = "critical"

has_critical_finding(self) ==
    \E i \in DOMAIN self.findings : self.findings[i].severity = "high"

\* the check with a window one step too long: range(step_count - window, ...)
no_new_findings_recently_long(self, window) ==
    IF self.step_count < window
    THEN FALSE
    ELSE LET recent_steps == (self.step_count - window) .. self.step_count
         IN  {i \in DOMAIN self.findings : self.findings[i].step \in recent_steps} = {}

\* the check with "<=" written for "<" in its early return
no_new_findings_recently_late(self, window) ==
    IF self.step_count <= window
    THEN FALSE
    ELSE LET recent_steps == (self.step_count - window + 1) .. self.step_count
         IN  {i \in DOMAIN self.findings : self.findings[i].step \in recent_steps} = {}

no_new_findings_recently(self, window) ==
    IF self.step_count < window
    THEN FALSE
    ELSE LET recent_steps == (self.step_count - window + 1) .. self.step_count
         IN  {i \in DOMAIN self.findings : self.findings[i].step \in recent_steps} = {}

\* "at least 8 different tools"
CoverageThreshold == 8

\* the check with ">" written for ">="
sufficient_coverage_strict(self) ==
    Cardinality(DOMAIN self.tool_usage_count) > CoverageThreshold

sufficient_coverage(self) ==
    Cardinality(DOMAIN self.tool_usage_count) >= CoverageThreshold

\* window=3 and "at least 3 steps"
StagnationWindow == 3

\* The reasons, in the source's order: "maximum number of steps reached",
\* "key problem found", "several steps in a row without a new finding",
\* "full check completed", "continue diagnosing".
StepLimitReached == "StepLimitReached"
CriticalFindingFound == "CriticalFindingFound"
Stagnation == "Stagnation"
SufficientCoverage == "SufficientCoverage"
InProgress == "InProgress"

\* the policy with conditions 1 and 2 in the other order
should_continue_critical_first(self, max) ==
    IF has_critical_finding(self)
    THEN <<FALSE, CriticalFindingFound>>
    ELSE IF self.step_count >= max
    THEN <<FALSE, StepLimitReached>>
    ELSE IF no_new_findings_recently(self, StagnationWindow)
            /\ self.step_count >= StagnationWindow
    THEN <<FALSE, Stagnation>>
    ELSE IF sufficient_coverage(self)
    THEN <<FALSE, SufficientCoverage>>
    ELSE <<TRUE, InProgress>>

\* the policy with conditions 2 and 3 in the other order
should_continue_stagnation_first(self, max) ==
    IF self.step_count >= max
    THEN <<FALSE, StepLimitReached>>
    ELSE IF no_new_findings_recently(self, StagnationWindow)
            /\ self.step_count >= StagnationWindow
    THEN <<FALSE, Stagnation>>
    ELSE IF has_critical_finding(self)
    THEN <<FALSE, CriticalFindingFound>>
    ELSE IF sufficient_coverage(self)
    THEN <<FALSE, SufficientCoverage>>
    ELSE <<TRUE, InProgress>>

should_continue(self, max) ==
    IF self.step_count >= max
    THEN <<FALSE, StepLimitReached>>
    ELSE IF has_critical_finding(self)
    THEN <<FALSE, CriticalFindingFound>>
    ELSE IF no_new_findings_recently(self, StagnationWindow)
            /\ self.step_count >= StagnationWindow
    THEN <<FALSE, Stagnation>>
    ELSE IF sufficient_coverage(self)
    THEN <<FALSE, SufficientCoverage>>
    ELSE <<TRUE, InProgress>>

(***************************************************************************)
(* The object a fresh StructuredOutputGenerator is (structured_output.py). *)
(***************************************************************************)
StructuredOutputGenerator_init ==
    [current_step |-> 0,
     steps |-> <<>>,
     known_entities |-> [t \in {} |-> <<>>]]

\* a step {f"step{n}": {"cot", "coa"}} is kept as [key |-> n, cot, coa]
start_step(self, reasoning) ==
    [self EXCEPT
        !.current_step = self.current_step + 1,
        !.steps = Append(self.steps,
                         [key |-> self.current_step + 1, cot |-> reasoning, coa |-> <<>>])]

\* called after start_step only: self.steps is not empty
\* the method as it would be if it appended to the first step of the trace
add_action_observation_first(self, tool_name, tool_args, observation) ==
    LET action_obs == [action |-> [name |-> tool_name, args |-> tool_args],
                       observation |-> observation]
    IN  [self EXCEPT !.steps[1].coa = Append(self.steps[1].coa, action_obs)]

add_action_observation(self, tool_name, tool_args, observation) ==
    LET action_obs == [action |-> [name |-> tool_name, args |-> tool_args],
                       observation |-> observation]
        n == Len(self.steps)
    IN  [self EXCEPT !.steps[n].coa = Append(self.steps[n].coa, action_obs)]

\* the method as it would be if it added the identifiers to the list
update_known_entities_extend(self, entity_type, entities) ==
    [self EXCEPT !.known_entities =
        [t \in (DOMAIN self.known_entities) \cup {entity_type} |->
            IF t = entity_type
            THEN (IF t \in DOMAIN self.known_entities THEN self.known_entities[t] ELSE <<>>)
                 \o entities
            ELSE self.known_entities[t]]]

update_known_entities(self, entity_type, entities) ==
    [self EXCEPT !.known_entities =
        [t \in (DOMAIN self.known_entities) \cup {entity_type} |->
            IF t = entity_type THEN entities ELSE self.known_entities[t]]]

get_known_entities(self, entity_type) ==
    IF entity_type \in DOMAIN self.known_entities
    THEN self.known_entities[entity_type]
    ELSE <<>>

\* the keys tried, in order: the Chinese words for "interface" and "device"
\* are written jiekou and shebei
EntityKeys == <<"jiekou", "interface", "interface_name", "shebei", "device", "device_name">>

\* the value of the first key of EntityKeys the dict has, if any
FirstEntityOf(d) ==
    LET hits == {k \in DOMAIN EntityKeys : HasKey(d, EntityKeys[k])}
    IN  IF hits = {}
        THEN <<>>
        ELSE << GetKey(d, EntityKeys[CHOOSE k \in hits : \A h \in hits : k <= h]) >>

RECURSIVE EntitiesOfItems(_)
EntitiesOfItems(items) ==
    IF items = <<>>
    THEN <<>>
    ELSE FirstEntityOf(Head(items)) \o EntitiesOfItems(Tail(items))

\* entity_type is a parameter the function never reads
extract_entities_from_observation(observation, entity_type) ==
    IF observation.kind = "list"
    THEN EntitiesOfItems(observation.list)
    ELSE FirstEntityOf(observation.dict)

\* the reasonings of the model that contain one of the batch keywords
\* ("one by one", "each", "all", "batch", "traverse", "check all")
CueReasonings == {"check_each_interface_one_by_one", "check_all_devices"}

should_batch_execute(reasoning, entities) ==
    Len(entities) > 1 /\ reasoning \in CueReasonings

Init ==
    /\ state = StateManager_init
    /\ generator = StructuredOutputGenerator_init
    /\ pc = "api"
    /\ max_steps = 0
    /\ stop_reason = NoneValue
    /\ raised = NoneValue
    /\ call = NoneValue
    /\ planner = NoneValue

(***************************************************************************)
(* Spec: a caller drives one StateManager through any sequence of at most  *)
(* MaxCalls calls of add_execution, add_finding, update_diagnostic_chain.  *)
(***************************************************************************)
SessionTools == {"query_interface_info", "ping_test"}

SessionResponses ==
    {DictResponse(Dict1("status", "up")),
     ListResponse(<< Dict1("interface", "eth0") >>)}

SessionSeverities == {"medium", "high"}

SessionFocuses == {"", "check_crc"}

Calls == state.step_count + Len(state.findings) + Len(state.diagnostic_chain)

CallAddExecution ==
    /\ pc = "api"
    /\ Calls < MaxCalls
    /\ \E tool_name \in SessionTools, tool_response \in SessionResponses :
          /\ state' = add_execution(state, tool_name, Dict1("device", "device1"),
                                    tool_response, "check")
          /\ raised' = IF extract_observations_raises(tool_response)
                       THEN "AttributeError" ELSE NoneValue
    /\ UNCHANGED <<generator, pc, max_steps, stop_reason, planner, call>>

CallAddFinding ==
    /\ pc = "api"
    /\ Calls < MaxCalls
    /\ \E severity \in SessionSeverities :
          state' = add_finding(state, "X", severity)
    /\ raised' = NoneValue
    /\ UNCHANGED <<generator, pc, max_steps, stop_reason, planner, call>>

CallUpdateDiagnosticChain ==
    /\ pc = "api"
    /\ Calls < MaxCalls
    /\ \E next_focus \in SessionFocuses :
          state' = update_diagnostic_chain(state, "action", "result", "conclusion",
                                           next_focus)
    /\ raised' = NoneValue
    /\ UNCHANGED <<generator, pc, max_steps, stop_reason, planner, call>>

Next ==
    \/ CallAddExecution
    \/ CallAddFinding
    \/ CallUpdateDiagnosticChain

Spec == Init /\ [][Next]_vars

(***************************************************************************)
(* SpecPolicy: the termination policy over long sessions.  The caller      *)
(* records executions and findings; every state is one should_continue may *)
(* be evaluated in, with any max_steps of MaxStepsValues.                  *)
(***************************************************************************)
ToolNames ==
    << "query_interface_info", "query_interface_traffic",
       "query_interface_error_statistics", "query_device_info",
       "query_device_alarm", "query_route_table", "query_arp_table",
       "query_optical_power", "query_cpu_usage", "query_memory_usage",
       "ping_test" >>

UsedTools == DOMAIN state.tool_usage_count

\* the calls so far that named a tool already used
Repeats == state.step_count - Cardinality(UsedTools)

\* the next unused name of ToolNames, and (within MaxRepeats) any used name
PolicyToolChoices ==
    {ToolNames[i] : i \in {j \in DOMAIN ToolNames :
                              /\ ToolNames[j] \notin UsedTools
                              /\ \A k \in 1..(j-1) : ToolNames[k] \in UsedTools}}
    \cup (IF Repeats < MaxRepeats /\ state.executed_tools # <<>>
          THEN {state.executed_tools[Len(state.executed_tools)].tool_name}
          ELSE {})

PolicyAddExecution ==
    /\ pc = "api"
    /\ state.step_count < MaxPolicySteps
    /\ \E tool_name \in PolicyToolChoices :
          state' = add_execution(state, tool_name, Dict1("device", "device1"),
                                 DictResponse(Dict1("status", "up")), "check")
    /\ raised' = NoneValue
    /\ UNCHANGED <<generator, pc, max_steps, stop_reason, planner, call>>

PolicyAddFinding ==
    /\ pc = "api"
    /\ Len(state.findings) < MaxPolicyFindings
    /\ \E severity \in SessionSeverities :
          state' = add_finding(state, "X", severity)
    /\ raised' = NoneValue
    /\ UNCHANGED <<generator, pc, max_steps, stop_reason, planner, call>>

NextPolicy ==
    \/ PolicyAddExecution
    \/ PolicyAddFinding

SpecPolicy == Init /\ [][NextPolicy]_vars

(***************************************************************************)
(* AgentGenerator (src/agent_generator_new.py).                            *)
(***************************************************************************)
\* the tool names of the model with 'interface' in them, and with 'device'
InterfaceToolNames ==
    {"query_interface_info", "query_interface_traffic", "query_interface_error_statistics"}

DeviceToolNames == {"query_device_info", "query_device_alarm"}

get_relevant_entities(gen, tool_name) ==
    IF tool_name \in InterfaceToolNames
    THEN get_known_entities(gen, "interfaces")
    ELSE IF tool_name \in DeviceToolNames
    THEN get_known_entities(gen, "devices")
    ELSE <<>>

\* request[key] = value
DictSet(d, key, value) ==
    IF HasKey(d, key)
    THEN [i \in DOMAIN d |-> IF d[i][1] = key THEN <<key, value>> ELSE d[i]]
    ELSE Append(d, <<key, value>>)

update_tool_request_for_entity(request, entity, tool_name) ==
    IF tool_name \in InterfaceToolNames
    THEN DictSet(request, "interface_name", entity)
    ELSE IF tool_name \in DeviceToolNames
    THEN DictSet(request, "device_name", entity)
    ELSE request

NoFinding == [type |-> NoneValue, content |-> NoneValue]

\* "not response": an empty dict or an empty list
Falsy(response) ==
    IF response.kind = "dict" THEN response.dict = <<>> ELSE response.list = <<>>

\* the strings of the model that contain the Chinese word for "error packets"
ErrorPacketStrings == {"cuobao"}

\* f"... {len(response)} ..." for the lengths of the model
RecordsFetched == <<"fetched_1_records", "fetched_2_records", "fetched_3_records">>

\* the key zhuangtai is the Chinese word for "status"
analyze_tool_response(tool_name, response) ==
    IF Falsy(response)
    THEN NoFinding
    ELSE IF response.kind = "dict"
    THEN LET d == response.dict
         IN  IF \/ (HasKey(d, "status") /\ GetKey(d, "status") = "down")
                \/ (HasKey(d, "zhuangtai") /\ GetKey(d, "zhuangtai") = "down")
             THEN [type |-> "anomaly", content |-> "anomaly_interface_status_down"]
             ELSE IF \/ HasKey(d, "errors")
                     \/ \E i \in DOMAIN d : d[i][1] \in ErrorPacketStrings
                                           \/ d[i][2] \in ErrorPacketStrings
             THEN [type |-> "anomaly", content |-> "anomaly_error_statistics"]
             ELSE [type |-> "normal", content |-> "data_ok_no_anomaly"]
    ELSE [type |-> "info", content |-> RecordsFetched[Len(response.list)]]

SummaryKeys == <<"status", "zhuangtai", "errors", "cuobao", "interface", "jiekou">>

RECURSIVE KeyFields(_, _)
KeyFields(d, k) ==
    IF k > Len(SummaryKeys)
    THEN <<>>
    ELSE (IF HasKey(d, SummaryKeys[k])
          THEN << <<SummaryKeys[k], GetKey(d, SummaryKeys[k])>> >>
          ELSE <<>>) \o KeyFields(d, k + 1)

\* the summary text is kept as [text, fields]: ", ".join(key_fields[:3])
summarize_tool_result(result) ==
    IF result.kind = "list"
    THEN [text |-> RecordsFetched[Len(result.list)], fields |-> <<>>]
    ELSE LET key_fields == KeyFields(result.dict, 1)
         IN  IF key_fields # <<>>
             THEN [text |-> "key_fields",
                   fields |-> SubSeq(key_fields, 1, IF Len(key_fields) < 3
                                                    THEN Len(key_fields) ELSE 3)]
             ELSE [text |-> "data_ok", fields |-> <<>>]

\* f"found anomaly: {content}" is kept as [prefix, text]
generate_conclusion(response, finding) ==
    IF finding # NoFinding
    THEN IF finding.type = "anomaly"
         THEN [prefix |-> "found_anomaly", text |-> finding.content]
         ELSE IF finding.type = "normal"
         THEN [prefix |-> "", text |-> "normal_no_anomaly"]
         ELSE [prefix |-> "", text |-> finding.content]
    ELSE [prefix |-> "", text |-> "executed"]

\* the batch branch is taken
batch_taken(gen, plan) ==
    LET relevant_entities == get_relevant_entities(gen, plan.tool_name)
    IN  /\ relevant_entities # <<>>
        /\ Len(relevant_entities) > 1
        /\ should_batch_execute(plan.reasoning, relevant_entities)

\* the number of execute_tool calls of one iteration
executor_calls(gen, plan) ==
    IF batch_taken(gen, plan)
    THEN Len(get_relevant_entities(gen, plan.tool_name))
    ELSE 1

\* "for entity in relevant_entities", from the i-th entity on; responses[i]
\* is what execute_tool returns for the i-th entity
RECURSIVE batch_loop(_, _, _, _, _, _)
batch_loop(st, gen, plan, relevant_entities, responses, i) ==
    IF i > Len(relevant_entities)
    THEN [state |-> st, generator |-> gen, raised |-> NoneValue]
    ELSE LET entity == relevant_entities[i]
             tool_request == update_tool_request_for_entity(plan.tool_request, entity,
                                                            plan.tool_name)
             tool_response == responses[i]
             gen1 == add_action_observation(gen, plan.tool_name, tool_request,
                                            tool_response)
             first == entity = relevant_entities[1]
             st1 == IF first
                    THEN add_execution(st, plan.tool_name, tool_request, tool_response,
                                       plan.reasoning)
                    ELSE st
         IN  IF first /\ extract_observations_raises(tool_response)
             THEN [state |-> st1, generator |-> gen1, raised |-> "AttributeError"]
             ELSE batch_loop(st1, gen1, plan, relevant_entities, responses, i + 1)

\* the branch as it would be if an observation with the key 'error' were
\* dropped instead of recorded
single_execution_skip_errors(st, gen, plan, tool_response) ==
    LET gen1 == add_action_observation(gen, plan.tool_name, plan.tool_request,
                                       tool_response)
        st1 == IF tool_response.kind = "dict" /\ HasKey(tool_response.dict, "error")
               THEN st
               ELSE add_execution(st, plan.tool_name, plan.tool_request, tool_response,
                                  plan.reasoning)
    IN  [state |-> st1, generator |-> gen1, raised |-> NoneValue]

\* the single-execution branch, with the entity extraction that follows it
single_execution(st, gen, plan, tool_response) ==
    LET gen1 == add_action_observation(gen, plan.tool_name, plan.tool_request,
                                       tool_response)
        st1 == add_execution(st, plan.tool_name, plan.tool_request, tool_response,
                             plan.reasoning)
        interfaces == extract_entities_from_observation(tool_response, "interface")
        gen2 == IF interfaces # <<>>
                THEN update_known_entities(gen1, "interfaces", interfaces)
                ELSE gen1
        devices == extract_entities_from_observation(tool_response, "device")
        gen3 == IF devices # <<>>
                THEN update_known_entities(gen2, "devices", devices)
                ELSE gen2
    IN  IF extract_observations_raises(tool_response)
        THEN [state |-> st1, generator |-> gen1, raised |-> "AttributeError"]
        ELSE [state |-> st1, generator |-> gen3, raised |-> NoneValue]

\* the iteration as it would be if the finding and the chain entry were
\* computed from the first result of the step
loop_body_first_response(st, gen, plan, responses) ==
    LET gen0 == start_step(gen, plan.reasoning)
        executed ==
            IF batch_taken(gen0, plan)
            THEN batch_loop(st, gen0, plan, get_relevant_entities(gen0, plan.tool_name),
                            responses, 1)
            ELSE single_execution(st, gen0, plan, responses[1])
        tool_response == responses[1]
        finding == analyze_tool_response(plan.tool_name, tool_response)
        st2 == IF finding # NoFinding
               THEN add_finding(executed.state, finding.type, finding.content)
               ELSE executed.state
        st3 == update_diagnostic_chain(
                   st2,
                   [tool_name |-> plan.tool_name, reasoning |-> plan.reasoning],
                   summarize_tool_result(tool_response),
                   generate_conclusion(tool_response, finding),
                   plan.next_focus)
    IN  IF executed.raised # NoneValue
        THEN executed
        ELSE [state |-> st3, generator |-> executed.generator, raised |-> NoneValue]

\* one iteration of the loop of generate from start_step on, for a plan
\* without 'error'; responses are the results of its execute_tool calls
loop_body(st, gen, plan, responses) ==
    LET gen0 == start_step(gen, plan.reasoning)
        executed ==
            IF batch_taken(gen0, plan)
            THEN batch_loop(st, gen0, plan, get_relevant_entities(gen0, plan.tool_name),
                            responses, 1)
            ELSE single_execution(st, gen0, plan, responses[1])
        tool_response == responses[Len(responses)]
        finding == analyze_tool_response(plan.tool_name, tool_response)
        st2 == IF finding # NoFinding
               THEN add_finding(executed.state, finding.type, finding.content)
               ELSE executed.state
        st3 == update_diagnostic_chain(
                   st2,
                   [tool_name |-> plan.tool_name, reasoning |-> plan.reasoning],
                   summarize_tool_result(tool_response),
                   generate_conclusion(tool_response, finding),
                   plan.next_focus)
    IN  IF executed.raised # NoneValue
        THEN executed
        ELSE [state |-> st3, generator |-> executed.generator, raised |-> NoneValue]

(***************************************************************************)
(* Strings of the planner.  A Python string is a TLA+ string; Chars gives  *)
(* its characters, so that lower(), "in" and the similarity measure are    *)
(* computed.  A Chinese character is one character, written in pinyin.     *)
(***************************************************************************)
Chars(s) ==
    CASE s = "" -> <<>>
      [] s = "ping_test" -> <<"p", "i", "n", "g", "_", "t", "e", "s", "t">>
      [] s = "query_arp" -> <<"q", "u", "e", "r", "y", "_", "a", "r", "p">>
      [] s = "Ping_Test" -> <<"P", "i", "n", "g", "_", "T", "e", "s", "t">>
      [] s = "arp" -> <<"a", "r", "p">>
      [] s = "pong_test" -> <<"p", "o", "n", "g", "_", "t", "e", "s", "t">>
      [] s = "zzz" -> <<"z", "z", "z">>
      [] s = "finish" -> <<"f", "i", "n", "i", "s", "h">>
      [] s = "finish_diagnosis" ->
            <<"f", "i", "n", "i", "s", "h", "_", "d", "i", "a", "g", "n", "o", "s", "i", "s">>
      [] s = "query" -> <<"q", "u", "e", "r", "y">>
      [] s = "get" -> <<"g", "e", "t">>
      [] s = "show" -> <<"s", "h", "o", "w">>
      [] s = "device" -> <<"d", "e", "v", "i", "c", "e">>
      [] s = "device_name" -> <<"d", "e", "v", "i", "c", "e", "_", "n", "a", "m", "e">>
      [] s = "interface" -> <<"i", "n", "t", "e", "r", "f", "a", "c", "e">>
      [] s = "interface_name" ->
            <<"i", "n", "t", "e", "r", "f", "a", "c", "e", "_", "n", "a", "m", "e">>
      [] s = "ip" -> <<"i", "p">>
      [] s = "port" -> <<"p", "o", "r", "t">>
      [] s = "vlan" -> <<"v", "l", "a", "n">>
      [] s = "hostname" -> <<"h", "o", "s", "t", "n", "a", "m", "e">>
      [] s = "unknown" -> <<"u", "n", "k", "n", "o", "w", "n">>
      [] s = "tbd" -> <<"t", "b", "d">>
      [] s = "..." -> <<".", ".", ".">>
      [] s = "xxx" -> <<"x", "x", "x">>
      [] s = "yyy" -> <<"y", "y", "y">>
      [] s = "shebei" -> <<"she", "bei">>
      [] s = "jiekou" -> <<"jie", "kou">>
      [] s = "suozai" -> <<"suo", "zai">>
      [] s = "mouge" -> <<"mou", "ge">>
      [] s = "zhege" -> <<"zhe", "ge">>
      [] s = "nage" -> <<"na", "ge">>
      [] s = "weizhi" -> <<"wei", "zhi">>
      [] s = "daiding" -> <<"dai", "ding">>
      [] s = "status" -> <<"s", "t", "a", "t", "u", "s">>
      [] s = "up" -> <<"u", "p">>
      [] s = "X1" -> <<"X", "1">>
      [] s = "r1" -> <<"r", "1">>
      [] s = "eth0" -> <<"e", "t", "h", "0">>
      [] s = "Device" -> <<"D", "e", "v", "i", "c", "e">>
      [] s = " device" -> <<" ", "d", "e", "v", "i", "c", "e">>
      [] s = "device1" -> <<"d", "e", "v", "i", "c", "e", "1">>
      [] s = "port1/0" -> <<"p", "o", "r", "t", "1", "/", "0">>
      [] s = "vlan.10" -> <<"v", "l", "a", "n", ".", "1", "0">>
      [] s = "device_spine_01x" ->
            <<"d", "e", "v", "i", "c", "e", "_", "s", "p", "i", "n", "e", "_", "0", "1", "x">>
      [] s = "ARP" -> <<"A", "R", "P">>
      [] s = "test" -> <<"t", "e", "s", "t">>

\* str.lower() on one character, for the upper-case letters of the model
LowerChar(c) ==
    CASE c = "P" -> "p"
      [] c = "T" -> "t"
      [] c = "X" -> "x"
      [] c = "D" -> "d"
      [] c = "A" -> "a"
      [] c = "R" -> "r"
      [] OTHER -> c

\* s.lower(), as characters
Lower(s) == [i \in DOMAIN Chars(s) |-> LowerChar(Chars(s)[i])]

\* str.strip() on characters: the blanks at both ends are dropped
RECURSIVE Strip(_)
Strip(cs) ==
    IF cs = <<>> THEN <<>>
    ELSE IF Head(cs) = " " THEN Strip(Tail(cs))
    ELSE IF cs[Len(cs)] = " " THEN Strip(SubSeq(cs, 1, Len(cs) - 1))
    ELSE cs

\* "sub in text" on characters
Contains(sub, text) ==
    \E i \in 0 .. (Len(text) - Len(sub)) :
        \A j \in 1 .. Len(sub) : text[i + j] = sub[j]

(***************************************************************************)
(* ToolManager (structured_output.py): self.tools is kept as the sequence  *)
(* of its keys, in insertion order.                                        *)
(***************************************************************************)
ToolManager_init(tool_names) == [tools |-> tool_names]

\* the names that are valid whatever the catalog holds
FinishNames == {"finish_diagnosis", "finish"}

is_valid_tool(self, tool_name) ==
    \/ tool_name \in FinishNames
    \/ \E i \in DOMAIN self.tools : self.tools[i] = tool_name

\* the names of the catalog, in its order
get_all_tool_names(self) == self.tools

(***************************************************************************)
(* EnhancedPlanner (batch_processor.py, the last of its three versions).   *)
(***************************************************************************)
\* simple_similarity(s1, s2) as the fraction <<common, max(len)>>
simple_similarity(a, b) ==
    LET la == Lower(a)
        lb == Lower(b)
        s1 == IF Len(la) > Len(lb) THEN lb ELSE la
        s2 == IF Len(la) > Len(lb) THEN la ELSE lb
        common == Cardinality({i \in DOMAIN s1 : \E j \in DOMAIN s2 : s2[j] = s1[i]})
    IN  <<common, IF Len(s1) > Len(s2) THEN Len(s1) ELSE Len(s2)>>

\* x > y for fractions with positive denominators
FracGreater(x, y) == x[1] * y[2] > y[1] * x[2]

\* the best_match after the first k tools of the similarity loop, with its
\* score: "if score > best_score and score > 0.6"
RECURSIVE BestMatch(_, _, _)
BestMatch(invalid_name, valid_tools, k) ==
    IF k = 0
    THEN [match |-> NoneValue, score |-> <<0, 1>>]
    ELSE LET before == BestMatch(invalid_name, valid_tools, k - 1)
             score == simple_similarity(invalid_name, valid_tools[k])
         IN  IF FracGreater(score, before.score) /\ FracGreater(score, <<6, 10>>)
             THEN [match |-> valid_tools[k], score |-> score]
             ELSE before

\* the first element of a sequence that satisfies a test given as a set of
\* indices, or None
FirstAt(seq, hits) ==
    IF hits = {}
    THEN NoneValue
    ELSE seq[CHOOSE i \in hits : \A j \in hits : i <= j]

\* the matching as it would be with the containment loop before the exact
\* loop
fuzzy_match_tool_name_containment_first(invalid_name, valid_tools) ==
    LET invalid_lower == Strip(Lower(invalid_name))
        exact == {i \in DOMAIN valid_tools : Lower(valid_tools[i]) = invalid_lower}
        containing == {i \in DOMAIN valid_tools :
                          \/ Contains(invalid_lower, Lower(valid_tools[i]))
                          \/ Contains(Lower(valid_tools[i]), invalid_lower)}
    IN  IF invalid_name = "" \/ valid_tools = <<>>
        THEN NoneValue
        ELSE IF containing # {}
        THEN FirstAt(valid_tools, containing)
        ELSE IF exact # {}
        THEN FirstAt(valid_tools, exact)
        ELSE BestMatch(invalid_name, valid_tools, Len(valid_tools)).match

fuzzy_match_tool_name(invalid_name, valid_tools) ==
    LET invalid_lower == Strip(Lower(invalid_name))
        exact == {i \in DOMAIN valid_tools : Lower(valid_tools[i]) = invalid_lower}
        containing == {i \in DOMAIN valid_tools :
                          \/ Contains(invalid_lower, Lower(valid_tools[i]))
                          \/ Contains(Lower(valid_tools[i]), invalid_lower)}
    IN  IF invalid_name = "" \/ valid_tools = <<>>
        THEN NoneValue
        ELSE IF exact # {}
        THEN FirstAt(valid_tools, exact)
        ELSE IF containing # {}
        THEN FirstAt(valid_tools, containing)
        ELSE BestMatch(invalid_name, valid_tools, Len(valid_tools)).match

\* the patterns of _is_valid_parameter_value; the Chinese ones are the words
\* for "device", "interface", "located at", "some", "this", "that",
\* "unknown" and "to be decided"
invalid_patterns ==
    <<"shebei", "jiekou", "suozai", "mouge", "zhege", "nage",
      "device", "interface", "ip", "port", "vlan",
      "weizhi", "daiding", "unknown", "tbd", "...", "xxx", "yyy">>

\* "len(value) < 15"
ShortValueLength == 15

\* the classification as it would be without "len(value) < 15"
is_valid_parameter_value_any_length(value) ==
    IF value = NoneValue \/ value = ""
    THEN FALSE
    ELSE LET value_lower == Strip(Lower(value))
         IN  \A k \in DOMAIN invalid_patterns :
                LET pattern == Chars(invalid_patterns[k])
                IN  /\ value_lower # pattern
                    /\ ~( /\ Contains(pattern, value_lower)
                          /\ ~Contains(<<"/">>, Chars(value))
                          /\ ~Contains(<<".">>, Chars(value)) )

\* values are strings or None: "not value" holds for None and for ''
is_valid_parameter_value(value) ==
    IF value = NoneValue \/ value = ""
    THEN FALSE
    ELSE LET value_lower == Strip(Lower(value))
         IN  \A k \in DOMAIN invalid_patterns :
                LET pattern == Chars(invalid_patterns[k])
                IN  /\ value_lower # pattern
                    /\ ~( /\ Len(Chars(value)) < ShortValueLength
                          /\ Contains(pattern, value_lower)
                          /\ ~Contains(<<"/">>, Chars(value))
                          /\ ~Contains(<<".">>, Chars(value)) )

\* the lists of known_params
KnownTypes == {"device_name", "interface_name", "ip", "vlan", "hostname"}

\* the classification as it would be with the exact names of the lists
RequestKeyType_exact(key) ==
    IF key \in {"device_name", "interface_name", "ip"} THEN key ELSE NoneValue

\* the list a key of the goal or of a tool_request feeds: the first of
\* 'device', 'interface', 'ip' that key.lower() contains
RequestKeyType(key) ==
    IF Contains(Chars("device"), Lower(key)) THEN "device_name"
    ELSE IF Contains(Chars("interface"), Lower(key)) THEN "interface_name"
    ELSE IF Contains(Chars("ip"), Lower(key)) THEN "ip"
    ELSE NoneValue

\* the list a key of a tool_response feeds (exact key names; IP_dizhi is
\* "IP address", IP_dizhi/yanma is "IP address/mask")
ResponseKeyType(key) ==
    IF key \in {"shebei", "device", "device_name"} THEN "device_name"
    ELSE IF key \in {"jiekou", "interface", "interface_name"} THEN "interface_name"
    ELSE IF key \in {"IP", "IP_dizhi", "ip"} THEN "ip"
    ELSE NoneValue

\* the parameter values and the parameter names of the model, with
\* _is_valid_parameter_value and the type of a name evaluated once for each
ParameterValues ==
    {NoneValue, "", "shebei", "device", "X1", "up", "r1", "eth0", "Device", " device",
     "device1", "port1/0", "vlan.10", "device_spine_01x", "unknown", "..."}

ParameterKeys == {"device", "device_name", "interface", "interface_name", "ip", "status"}

value_is_valid == [value \in ParameterValues |-> is_valid_parameter_value(value)]

request_key_type == [key \in ParameterKeys |-> RequestKeyType(key)]

\* {**a, **b}
DictMerge(a, b) ==
    [i \in DOMAIN a |-> IF HasKey(b, a[i][1]) THEN <<a[i][1], GetKey(b, a[i][1])>> ELSE a[i]]
    \o SelectSeq(b, LAMBDA p : ~HasKey(a, p[1]))

\* the string with the characters cs
Unchars(cs) ==
    CHOOSE s \in {"", "X1", "up", "ip", "arp"} : Chars(s) = cs

\* str(value).split('/')[0]
BeforeSlash(value) ==
    LET cs == Chars(value)
        hits == {i \in DOMAIN cs : cs[i] = "/"}
    IN  IF hits = {}
        THEN value
        ELSE Unchars(SubSeq(cs, 1, (CHOOSE i \in hits : \A j \in hits : i <= j) - 1))

\* the values of type t that the goal, a tool_request, a dict response and
\* the items of a list response contribute
\* the same without the test of _is_valid_parameter_value
KnownOfRequest_unchecked(d, t) ==
    {d[i][2] : i \in {j \in DOMAIN d : request_key_type[d[j][1]] = t}}

KnownOfRequest(d, t) ==
    {d[i][2] : i \in {j \in DOMAIN d : /\ request_key_type[d[j][1]] = t
                                       /\ value_is_valid[d[j][2]]}}

KnownOfResponseDict(d, t) ==
    {d[i][2] : i \in {j \in DOMAIN d : /\ ResponseKeyType(d[j][1]) = t
                                       /\ value_is_valid[d[j][2]]}}

KnownOfResponseItem(d, t) ==
    {d[i][2] : i \in {j \in DOMAIN d : /\ t # "ip"
                                       /\ ResponseKeyType(d[j][1]) = t
                                       /\ value_is_valid[d[j][2]]}}
    \cup {BeforeSlash(d[i][2]) :
            i \in {j \in DOMAIN d : /\ t = "ip"
                                    /\ d[j][1] \in {"IP", "IP_dizhi", "ip", "IP_dizhi/yanma"}
                                    /\ value_is_valid[d[j][2]]
                                    /\ value_is_valid[BeforeSlash(d[j][2])]}}

KnownOfExecution(execution, t) ==
    KnownOfRequest(execution.tool_request, t)
    \cup (IF execution.tool_response.kind = "dict"
          THEN KnownOfResponseDict(execution.tool_response.dict, t)
          ELSE UNION {KnownOfResponseItem(execution.tool_response.list[i], t) :
                         i \in DOMAIN execution.tool_response.list})

\* known_params, each list as the set "list(set(...))" holds
extract_known_parameters(st, goal) ==
    [t \in KnownTypes |->
        KnownOfRequest(DictMerge(goal.entities, goal.context_params), t)
        \cup UNION {KnownOfExecution(st.executed_tools[i], t) : i \in DOMAIN st.executed_tools}]

\* list(set(...)) leaves the order of each list open: the element [0] of
\* every non-empty list is any of its elements ('' stands for "no [0]")
FirstOf(values) == IF values = {} THEN {""} ELSE values

FirstChoices(known_params) ==
    {[device_name |-> d, interface_name |-> i, ip |-> a, vlan |-> v, hostname |-> h] :
        d \in FirstOf(known_params["device_name"]),
        i \in FirstOf(known_params["interface_name"]),
        a \in FirstOf(known_params["ip"]),
        v \in FirstOf(known_params["vlan"]),
        h \in FirstOf(known_params["hostname"])}

\* first[t] is known_params[t][0]
find_valid_parameter(param_name, first) ==
    LET n == Lower(param_name)
    IN  IF Contains(Chars("device"), n) THEN first["device_name"]
        ELSE IF Contains(Chars("interface"), n) THEN first["interface_name"]
        ELSE IF Contains(Chars("ip"), n) THEN first["ip"]
        ELSE IF Contains(Chars("vlan"), n) THEN first["vlan"]
        ELSE IF Contains(Chars("hostname"), n) THEN first["hostname"]
        ELSE ""

\* plan[field] = value
PlanSet(plan, field, value) ==
    [f \in (DOMAIN plan) \cup {field} |-> IF f = field THEN value ELSE plan[f]]

\* the repair as it would be if every argument with a known value of its
\* type were replaced, the concrete ones too
fix_parameters_all(plan, first) ==
    LET tool_request == IF "tool_request" \in DOMAIN plan THEN plan.tool_request ELSE Dict0
        fixed == [i \in DOMAIN tool_request |->
                    IF find_valid_parameter(tool_request[i][1], first) # ""
                    THEN <<tool_request[i][1], find_valid_parameter(tool_request[i][1], first)>>
                    ELSE tool_request[i]]
    IN  PlanSet(plan, "tool_request", fixed)

\* the repair for one order of the known lists
fix_parameters(plan, first) ==
    LET tool_request == IF "tool_request" \in DOMAIN plan THEN plan.tool_request ELSE Dict0
        fixed == [i \in DOMAIN tool_request |->
                    IF /\ ~value_is_valid[tool_request[i][2]]
                       /\ find_valid_parameter(tool_request[i][1], first) # ""
                    THEN <<tool_request[i][1], find_valid_parameter(tool_request[i][1], first)>>
                    ELSE tool_request[i]]
    IN  PlanSet(plan, "tool_request", fixed)

\* the plans _validate_and_fix_parameters may return
validate_and_fix_parameters(plan, st, goal) ==
    {fix_parameters(plan, first) : first \in FirstChoices(extract_known_parameters(st, goal))}

\* score = base_score + 2.0 / (usage_count + 1) of the k-th candidate, as a
\* fraction; base_score = len(candidates) - candidates.index(candidate),
\* and the index of the k-th candidate is k - 1 (the candidates before it
\* already carry a 'score', so none of them equals it)
candidate_score(candidates, k, st) ==
    LET usage_count == get_tool_usage_count(st, candidates[k].tool_name)
    IN  <<(Len(candidates) - (k - 1)) * (usage_count + 1) + 2, usage_count + 1>>

\* the sort as it would be if candidates of equal score changed places
sorted_by_score_ties_reversed(candidates, st) ==
    LET score(k) == candidate_score(candidates, k, st)
        before(j, k) == \/ FracGreater(score(j), score(k))
                        \/ (~FracGreater(score(k), score(j)) /\ j > k)
    IN  [p \in DOMAIN candidates |->
            CHOOSE k \in DOMAIN candidates :
                Cardinality({j \in DOMAIN candidates : before(j, k)}) = p - 1]

\* the sort as it would be without reverse=True: lowest score first
sorted_by_score_ascending(candidates, st) ==
    LET score(k) == candidate_score(candidates, k, st)
        before(j, k) == \/ FracGreater(score(k), score(j))
                        \/ (~FracGreater(score(j), score(k)) /\ j < k)
    IN  [p \in DOMAIN candidates |->
            CHOOSE k \in DOMAIN candidates :
                Cardinality({j \in DOMAIN candidates : before(j, k)}) = p - 1]

\* candidates.sort(key=score, reverse=True), as the sequence of the indices:
\* the sort is stable, candidates of equal score keep their order
sorted_by_score(candidates, st) ==
    LET score(k) == candidate_score(candidates, k, st)
        before(j, k) == \/ FracGreater(score(j), score(k))
                        \/ (~FracGreater(score(k), score(j)) /\ j < k)
    IN  [p \in DOMAIN candidates |->
            CHOOSE k \in DOMAIN candidates :
                Cardinality({j \in DOMAIN candidates : before(j, k)}) = p - 1]

\* the candidates _apply_exploration_strategy may return for a non-empty
\* list (random.random, random.choice and random.choices decide which)
apply_exploration_strategy(candidates, st, exploration_mode) ==
    LET order == sorted_by_score(candidates, st)
        picks == IF exploration_mode = "greedy"
                 THEN {order[1]}
                 ELSE IF exploration_mode = "balanced"
                 THEN {order[1]} \cup {order[p] : p \in 2 .. Len(order)}
                 ELSE {order[p] : p \in DOMAIN order}
    IN  {PlanSet(candidates[k], "score", candidate_score(candidates, k, st)) : k \in picks}

\* One request of the loop of _get_tool_candidates.  The answer of the
\* collaborator is [kind, tool_name]: a parsed candidate with that name, a
\* text that does not parse ({}), or a failed call (an exception, which
\* makes the method return []).
LlmCandidate(tool_name) ==
    [tool_name |-> tool_name,
     tool_request |-> Dict1("device_name", "shebei"),
     reasoning |-> "llm_reasoning"]

get_tool_candidates_request(tool_manager, candidates, outcome) ==
    IF outcome.kind = "failed"
    THEN [failed |-> TRUE, candidates |-> <<>>]
    ELSE IF outcome.kind = "candidate" /\ is_valid_tool(tool_manager, outcome.tool_name)
    THEN [failed |-> FALSE, candidates |-> Append(candidates, LlmCandidate(outcome.tool_name))]
    ELSE [failed |-> FALSE, candidates |-> candidates]

\* the method as it would be without the check of the answer's name
try_tool_name_correction_unchecked(tool_manager, outcome) ==
    IF outcome.kind # "candidate"
    THEN <<>>
    ELSE <<LlmCandidate(outcome.tool_name)>>

\* _try_tool_name_correction for the answer to its one request: <<>> is None
try_tool_name_correction(tool_manager, outcome) ==
    LET all_tools == get_all_tool_names(tool_manager)
        candidate == LlmCandidate(outcome.tool_name)
        corrected_name == fuzzy_match_tool_name(outcome.tool_name, all_tools)
    IN  IF outcome.kind # "candidate"
        THEN <<>>
        ELSE IF is_valid_tool(tool_manager, outcome.tool_name)
        THEN <<candidate>>
        ELSE IF corrected_name # NoneValue
        THEN << [candidate EXCEPT !.tool_name = corrected_name] >>
        ELSE <<>>

\* f"...{state.step_count}..." for the step counts of the model
FallbackReasonings ==
    <<"fallback_choice_after_0_steps", "fallback_choice_after_1_steps",
      "fallback_choice_after_2_steps", "fallback_choice_after_3_steps",
      "fallback_choice_after_4_steps", "fallback_choice_after_5_steps">>

\* d.get(key)
DictGet(d, key) == IF HasKey(d, key) THEN GetKey(d, key) ELSE NoneValue

\* a or b
OrElse(a, b) == IF Truthy(a) THEN a ELSE b

\* the keys of state.tool_usage_count in insertion order: the names of the
\* records in the order of their first record
usage_keys(st) ==
    LET firsts == SelectSeq([i \in DOMAIN st.executed_tools |-> i],
                            LAMBDA i : \A j \in 1 .. (i - 1) :
                                st.executed_tools[j].tool_name # st.executed_tools[i].tool_name)
    IN  [p \in DOMAIN firsts |-> st.executed_tools[firsts[p]].tool_name]

\* the tool_request of the fallback plan, filled from the goal
fallback_tool_request(goal) ==
    LET all_params == DictMerge(goal.context_params, goal.entities)
        with_device == IF HasKey(all_params, "device") \/ HasKey(all_params, "device_name")
                       THEN Dict1("device_name", OrElse(DictGet(all_params, "device_name"),
                                                        DictGet(all_params, "device")))
                       ELSE Dict0
    IN  IF HasKey(all_params, "interface") \/ HasKey(all_params, "interface_name")
        THEN Append(with_device,
                    <<"interface_name", OrElse(DictGet(all_params, "interface_name"),
                                               DictGet(all_params, "interface"))>>)
        ELSE with_device

fallback_plan(selected_tool, st, goal) ==
    [tool_name |-> selected_tool,
     tool_request |-> fallback_tool_request(goal),
     reasoning |-> FallbackReasonings[st.step_count + 1],
     expected_outcome |-> "basic_information",
     next_focus |-> "decide_by_result"]

\* the tools of all_tools whose lower-case name has 'query', 'get' or 'show'
query_tools_of(all_tools) ==
    SelectSeq(all_tools, LAMBDA t : \/ Contains(Chars("query"), Lower(t))
                                    \/ Contains(Chars("get"), Lower(t))
                                    \/ Contains(Chars("show"), Lower(t)))

unused_tools_of(all_tools, st) ==
    SelectSeq(all_tools, LAMBDA t : t \notin DOMAIN st.tool_usage_count)

\* the keys of tool_usage_count whose count is min(tool_usage_count.values())
least_used_of(st) ==
    SelectSeq(usage_keys(st),
              LAMBDA t : \A n \in DOMAIN st.tool_usage_count :
                  st.tool_usage_count[t] <= st.tool_usage_count[n])

\* the method as it would be if it gave up once every tool has been used
select_fallback_tool_gives_up(tool_manager, st, goal) ==
    LET all_tools == get_all_tool_names(tool_manager)
    IN  IF all_tools = <<>>
        THEN [error |-> "no_tools_available"]
        ELSE IF st.step_count = 0
        THEN fallback_plan(IF query_tools_of(all_tools) # <<>>
                           THEN query_tools_of(all_tools)[1] ELSE all_tools[1], st, goal)
        ELSE IF unused_tools_of(all_tools, st) # <<>>
        THEN fallback_plan(unused_tools_of(all_tools, st)[1], st, goal)
        ELSE [error |-> "no_tools_available"]

\* the method as it would be if it ended the diagnosis when there is no tool
select_fallback_tool_default(tool_manager, st, goal) ==
    LET all_tools == get_all_tool_names(tool_manager)
    IN  IF all_tools = <<>>
        THEN fallback_plan("finish_diagnosis", st, goal)
        ELSE IF st.step_count = 0
        THEN fallback_plan(IF query_tools_of(all_tools) # <<>>
                           THEN query_tools_of(all_tools)[1] ELSE all_tools[1], st, goal)
        ELSE IF unused_tools_of(all_tools, st) # <<>>
        THEN fallback_plan(unused_tools_of(all_tools, st)[1], st, goal)
        ELSE fallback_plan(least_used_of(st)[1], st, goal)

select_fallback_tool(tool_manager, st, goal) ==
    LET all_tools == get_all_tool_names(tool_manager)
    IN  IF all_tools = <<>>
        THEN [error |-> "no_tools_available"]
        ELSE IF st.step_count = 0
        THEN fallback_plan(IF query_tools_of(all_tools) # <<>>
                           THEN query_tools_of(all_tools)[1] ELSE all_tools[1], st, goal)
        ELSE IF unused_tools_of(all_tools, st) # <<>>
        THEN fallback_plan(unused_tools_of(all_tools, st)[1], st, goal)
        ELSE fallback_plan(least_used_of(st)[1], st, goal)

\* "max_retries = 3" and "top_k=3"
max_retries == 3
top_k == 3

\* the state of one select_next_tool call is kept in the planner object:
\* phase, the retry and the request i of the two loops, the candidates so
\* far, the number of requests sent to the collaborator, the result (<<>>
\* until the call returns, when the locals of the loops are gone) and the
\* return statement that gave it
EnhancedPlanner_init(tool_manager, exploration_mode) ==
    [tool_manager |-> tool_manager,
     exploration_mode |-> exploration_mode,
     phase |-> "idle",
     retry |-> 0,
     i |-> 0,
     candidates |-> <<>>,
     requests |-> 0,
     result |-> <<>>,
     via |-> NoneValue]

\* select_next_tool up to its first request
select_next_tool_begin(self) ==
    [self EXCEPT !.phase = "sampling", !.retry = 0, !.i = 0, !.candidates = <<>>,
                 !.requests = 0, !.result = <<>>, !.via = NoneValue]

\* the loop as it would be with a single round
retry_again_never(retry) == FALSE

\* the loop as it would be with one round more
retry_again_inclusive(retry) == retry + 1 <= max_retries

\* "for retry in range(max_retries)" has a next round
retry_again(retry) == retry + 1 < max_retries

\* select_next_tool returns plan by the return statement named via
returned(self, plan, via) ==
    [self EXCEPT !.phase = "returned", !.retry = 0, !.i = 0, !.candidates = <<>>,
                 !.result = <<plan>>, !.via = via]

\* select_next_tool from the answer to a request of _get_tool_candidates
\* up to its next request or its return
sampling_step(self, st, goal, outcome) ==
    LET got == get_tool_candidates_request(self.tool_manager, self.candidates, outcome)
        sent == [self EXCEPT !.requests = self.requests + 1]
        attempt_over == got.failed \/ self.i + 1 = top_k
        next_round == IF retry_again(self.retry)
                      THEN [sent EXCEPT !.retry = self.retry + 1, !.i = 0, !.candidates = <<>>]
                      ELSE [sent EXCEPT !.phase = "strict", !.i = 0, !.candidates = <<>>]
    IN  IF ~attempt_over
        THEN {[sent EXCEPT !.i = self.i + 1, !.candidates = got.candidates]}
        ELSE IF got.candidates # <<>>
        THEN UNION {IF /\ "tool_name" \in DOMAIN selected
                       /\ is_valid_tool(self.tool_manager, selected.tool_name)
                    THEN {returned(sent, plan, "sampling") :
                             plan \in validate_and_fix_parameters(selected, st, goal)}
                    ELSE {next_round} :
                       selected \in apply_exploration_strategy(got.candidates, st,
                                                               self.exploration_mode)}
        ELSE {next_round}

\* select_next_tool from the answer to the request of
\* _try_tool_name_correction up to its return
strict_step(self, st, goal, outcome) ==
    LET sent == [self EXCEPT !.requests = self.requests + 1]
        corrected_tool == try_tool_name_correction(self.tool_manager, outcome)
        chosen == IF corrected_tool # <<>>
                  THEN corrected_tool[1]
                  ELSE select_fallback_tool(self.tool_manager, st, goal)
        via == IF corrected_tool = <<>> THEN "last_resort"
               ELSE IF corrected_tool[1].tool_name = outcome.tool_name THEN "strict"
               ELSE "fuzzy"
    IN  {returned(sent, plan, via) : plan \in validate_and_fix_parameters(chosen, st, goal)}

\* plan['tool_name'], plan['tool_request'], plan.get('reasoning', ''),
\* plan.get('next_focus', '')
plan_fields(plan) ==
    [tool_name |-> plan.tool_name,
     tool_request |-> plan.tool_request,
     reasoning |-> IF "reasoning" \in DOMAIN plan THEN plan.reasoning ELSE "",
     next_focus |-> IF "next_focus" \in DOMAIN plan THEN plan.next_focus ELSE ""]

(***************************************************************************)
(* SpecPlan: one run of AgentGenerator.generate with the planner's calls   *)
(* to the candidate-generation collaborator as steps.  The catalog, the    *)
(* exploration mode, and every answer of the collaborator are inputs.      *)
(***************************************************************************)
PlanCatalogs == {<<>>, <<"query_arp">>, <<"ping_test", "query_arp">>}

PlanModes == {"greedy", "balanced", "exploratory"}

\* the names the collaborator proposes: two of the catalog, one differing in
\* case, one contained in a name, one similar to a name, one like no name,
\* and one of the names valid without a catalog
ProposedNames == {"ping_test", "query_arp", "Ping_Test", "arp", "pong_test", "zzz", "finish"}

PlanOutcomes ==
    {[kind |-> "candidate", tool_name |-> n] : n \in ProposedNames}
    \cup {[kind |-> "unparseable", tool_name |-> ""], [kind |-> "failed", tool_name |-> ""]}

PlanGoal == [entities |-> Dict1("device", "X1"), context_params |-> Dict0]

PlanResponses == {DictResponse(Dict1("status", "up"))}

InitPlan ==
    /\ state = StateManager_init
    /\ generator = StructuredOutputGenerator_init
    /\ pc = "loop"
    /\ max_steps = MaxPlanSteps
    /\ stop_reason = NoneValue
    /\ raised = NoneValue
    /\ call = NoneValue
    /\ \E tools \in PlanCatalogs, mode \in PlanModes :
          planner = EnhancedPlanner_init(ToolManager_init(tools), mode)

\* "if not should_continue: break"
PlanStop ==
    /\ pc = "loop"
    /\ ~should_continue(state, max_steps)[1]
    /\ pc' = "stopped"
    /\ stop_reason' = should_continue(state, max_steps)[2]
    /\ UNCHANGED <<state, generator, max_steps, raised, planner, call>>

\* the loop calls select_next_tool, which sends its first request
PlanSelect ==
    /\ pc = "loop"
    /\ should_continue(state, max_steps)[1]
    /\ planner' = select_next_tool_begin(planner)
    /\ pc' = "planning"
    /\ UNCHANGED <<state, generator, max_steps, stop_reason, raised, call>>

\* an answer to a request of _get_tool_candidates
PlanSample ==
    /\ pc = "planning"
    /\ planner.phase = "sampling"
    /\ \E outcome \in PlanOutcomes :
          \E after \in sampling_step(planner, state, PlanGoal, outcome) :
              /\ planner' = after
              /\ pc' = IF after.phase = "returned" THEN "planned" ELSE "planning"
    /\ UNCHANGED <<state, generator, max_steps, stop_reason, raised, call>>

\* the step as it would be if generate opened the step of the trace before
\* it looked for 'error' in the plan
PlanStrict_opens_step ==
    /\ pc = "planning"
    /\ planner.phase = "strict"
    /\ \E outcome \in PlanOutcomes :
          \E after \in strict_step(planner, state, PlanGoal, outcome) :
              /\ planner' = after
              /\ pc' = IF "error" \in DOMAIN after.result[1] THEN "plan_failed" ELSE "planned"
              /\ generator' = IF "error" \in DOMAIN after.result[1]
                              THEN start_step(generator, "")
                              ELSE generator
    /\ UNCHANGED <<state, max_steps, stop_reason, raised, call>>

\* the answer to the request of _try_tool_name_correction; select_next_tool
\* returns, and "if 'error' in plan: break" follows
PlanStrict ==
    /\ pc = "planning"
    /\ planner.phase = "strict"
    /\ \E outcome \in PlanOutcomes :
          \E after \in strict_step(planner, state, PlanGoal, outcome) :
              /\ planner' = after
              /\ pc' = IF "error" \in DOMAIN after.result[1] THEN "plan_failed" ELSE "planned"
    /\ UNCHANGED <<state, generator, max_steps, stop_reason, raised, call>>

\* the rest of the iteration, for the answers of the executor
PlanExecute ==
    /\ pc = "planned"
    /\ LET plan == plan_fields(planner.result[1])
           n == executor_calls(start_step(generator, plan.reasoning), plan)
       IN  \E responses \in [1 .. n -> PlanResponses] :
              LET after == loop_body(state, generator, plan, responses)
              IN  /\ state' = after.state
                  /\ generator' = after.generator
                  /\ raised' = after.raised
                  /\ pc' = IF after.raised # NoneValue THEN "raised" ELSE "loop"
    /\ planner' = EnhancedPlanner_init(planner.tool_manager, planner.exploration_mode)
    /\ UNCHANGED <<max_steps, stop_reason, call>>

NextPlan ==
    \/ PlanStop
    \/ PlanSelect
    \/ PlanSample
    \/ PlanStrict
    \/ PlanExecute

SpecPlan == InitPlan /\ [][NextPlan]_vars

(***************************************************************************)
(* SpecGen: one run of AgentGenerator.generate.  The planner's plan and    *)
(* the world model's results are the inputs of each iteration.             *)
(***************************************************************************)
\* plans select_next_tool returns: a valid tool name, a request, a
\* reasoning and a next_focus ('' when the plan has none)
GenPlans ==
    { [tool_name |-> "query_interface_info",
       tool_request |-> << <<"device_name", "device1">>, <<"interface_name", "eth0">> >>,
       reasoning |-> "check_each_interface_one_by_one",
       next_focus |-> ""],
      [tool_name |-> "query_device_info",
       tool_request |-> Dict1("device_name", "device1"),
       reasoning |-> "check_all_devices",
       next_focus |-> "device_health"],
      [tool_name |-> "ping_test",
       tool_request |-> Dict0,
       reasoning |-> "check_reachability",
       next_focus |-> ""] }

\* results execute_tool returns: always a dict (_parse_json_response wraps
\* every other value, failures become a dict with the key 'error')
GenResponses ==
    { DictResponse(Dict0),
      DictResponse(<< <<"interface", "eth1">>, <<"status", "down">> >>),
      DictResponse(<< <<"error", "exec_failed">>, <<"details", "timeout">> >>) }

InitGen ==
    /\ state = StateManager_init
    /\ generator = StructuredOutputGenerator_init
    /\ pc = "loop"
    /\ max_steps \in 1 .. MaxMaxSteps
    /\ stop_reason = NoneValue
    /\ raised = NoneValue
    /\ call = NoneValue
    /\ planner = NoneValue

\* "if not should_continue: break"
GenStop ==
    /\ pc = "loop"
    /\ ~should_continue(state, max_steps)[1]
    /\ pc' = "stopped"
    /\ stop_reason' = should_continue(state, max_steps)[2]
    /\ UNCHANGED <<state, generator, max_steps, raised, planner, call>>

\* "if 'error' in plan: break"
GenPlanError ==
    /\ pc = "loop"
    /\ should_continue(state, max_steps)[1]
    /\ pc' = "plan_failed"
    /\ UNCHANGED <<state, generator, max_steps, stop_reason, raised, planner, call>>

GenIterate ==
    /\ pc = "loop"
    /\ should_continue(state, max_steps)[1]
    /\ \E plan \in GenPlans :
          LET n == executor_calls(start_step(generator, plan.reasoning), plan)
          IN  \E responses \in [1 .. n -> GenResponses] :
                LET after == loop_body(state, generator, plan, responses)
                IN  /\ state' = after.state
                    /\ generator' = after.generator
                    /\ raised' = after.raised
                    /\ pc' = IF after.raised # NoneValue THEN "raised" ELSE "loop"
    /\ UNCHANGED <<max_steps, stop_reason, planner, call>>

NextGen ==
    \/ GenStop
    \/ GenPlanError
    \/ GenIterate

SpecGen == InitGen /\ [][NextGen]_vars

(***************************************************************************)
(* SpecEntities: runs of AgentGenerator.generate whose observations name   *)
(* interfaces and devices, for the registry of known entities.             *)
(***************************************************************************)
\* results execute_tool returns: dicts with and without an entity key, and
\* a list of two dicts, which an executor that does not wrap its results
\* may return
EntityResponses ==
    { DictResponse(Dict1("interface", "eth0")),
      DictResponse(Dict1("interface", "")),
      DictResponse(<< <<"device", "r1">>, <<"zhuangtai", "up">> >>),
      ListResponse(<< Dict1("interface", "eth0"), Dict1("interface", "eth1") >>) }

EntityIterate ==
    /\ pc = "loop"
    /\ should_continue(state, max_steps)[1]
    /\ \E plan \in GenPlans :
          LET n == executor_calls(start_step(generator, plan.reasoning), plan)
          IN  \E responses \in [1 .. n -> EntityResponses] :
                LET after == loop_body(state, generator, plan, responses)
                IN  /\ state' = after.state
                    /\ generator' = after.generator
                    /\ raised' = after.raised
                    /\ pc' = IF after.raised # NoneValue THEN "raised" ELSE "loop"
    /\ UNCHANGED <<max_steps, stop_reason, planner, call>>

NextEntities ==
    \/ GenStop
    \/ GenPlanError
    \/ EntityIterate

SpecEntities == InitGen /\ [][NextEntities]_vars

(***************************************************************************)
(* SpecBatch: the fan-out branch of generate's loop body.  The registry is *)
(* filled as the demonstration of structured_output.py fills it (a list    *)
(* observation, extract_entities_from_observation, update_known_entities); *)
(* the iterations that follow are generate's.                              *)
(***************************************************************************)
\* list observations of the first step: one dict per interface
BatchObservations ==
    { ListResponse(<< Dict1("jiekou", "eth0"), Dict1("jiekou", "eth1") >>),
      ListResponse(<< Dict1("jiekou", "eth0"), Dict1("jiekou", "eth1"), Dict1("jiekou", "eth2") >>),
      ListResponse(<< Dict1("jiekou", "eth0"), Dict1("jiekou", "eth0") >>),
      ListResponse(<< Dict1("jiekou", "eth0"), Dict1("jiekou", "eth1"), Dict1("jiekou", "eth0") >>) }

\* results execute_tool returns for one interface
BatchResponses ==
    { DictResponse(Dict1("zhuangtai", "up")),
      DictResponse(Dict1("zhuangtai", "down")) }

InitBatch ==
    /\ state = StateManager_init
    /\ generator = StructuredOutputGenerator_init
    /\ pc = "discover"
    /\ max_steps = MaxBatchSteps
    /\ stop_reason = NoneValue
    /\ raised = NoneValue
    /\ call = NoneValue
    /\ planner = NoneValue

\* step 1 of the demonstration
BatchDiscover ==
    /\ pc = "discover"
    /\ \E interfaces_result \in BatchObservations :
          LET gen1 == start_step(generator, "query_all_interfaces")
              gen2 == add_action_observation(gen1, "query_all_device_interfaces",
                                             Dict1("device_name", "device1"),
                                             interfaces_result)
              interfaces == extract_entities_from_observation(interfaces_result, "interface")
          IN  generator' = update_known_entities(gen2, "interfaces", interfaces)
    /\ pc' = "loop"
    /\ UNCHANGED <<state, max_steps, stop_reason, raised, planner, call>>

\* the plans of generate's model and one plan for an interface tool whose
\* reasoning holds none of the batch keywords
BatchIterate ==
    /\ pc = "loop"
    /\ should_continue(state, max_steps)[1]
    /\ \E plan \in GenPlans \cup
                     { [tool_name |-> "query_interface_traffic",
                        tool_request |-> Dict1("interface_name", "eth0"),
                        reasoning |-> "check_reachability",
                        next_focus |-> ""] } :
          LET n == executor_calls(start_step(generator, plan.reasoning), plan)
          IN  \E responses \in [1 .. n -> BatchResponses] :
                LET after == loop_body(state, generator, plan, responses)
                IN  /\ state' = after.state
                    /\ generator' = after.generator
                    /\ raised' = after.raised
                    /\ pc' = IF after.raised # NoneValue THEN "raised" ELSE "loop"
    /\ UNCHANGED <<max_steps, stop_reason, planner, call>>

NextBatch ==
    \/ BatchDiscover
    \/ BatchIterate
    \/ GenStop

SpecBatch == InitBatch /\ [][NextBatch]_vars

(***************************************************************************)
(* SpecCalls: one call of a method that computes a value from its          *)
(* arguments and the session: the call's arguments are drawn at the start, *)
(* the session is the one a history of add_execution calls leaves, and the *)
(* step is the call, which sets the returned value (ret is <<>> before the *)
(* return and <<value>> after it).                                         *)
(***************************************************************************)
\* the executions of the histories
CallExecutions ==
    { [tool_name |-> "ping_test",
       tool_request |-> Dict1("device_name", "r1"),
       tool_response |-> DictResponse(Dict1("status", "up"))],
      [tool_name |-> "query_arp",
       tool_request |-> Dict0,
       tool_response |-> DictResponse(Dict1("interface", "eth0"))] }

CallHistories == UNION {[1 .. n -> CallExecutions] : n \in 0 .. MaxHistory}

\* the session after add_execution for each execution of the history
RECURSIVE SessionOf(_)
SessionOf(history) ==
    IF history = <<>>
    THEN StateManager_init
    ELSE LET e == history[Len(history)]
         IN  add_execution(SessionOf(SubSeq(history, 1, Len(history) - 1)),
                           e.tool_name, e.tool_request, e.tool_response, "llm_reasoning")

\* seq[-n:] for n >= 0: the whole list for n = 0 (-0 is 0) and for n >= len
PySliceLast(seq, n) ==
    IF n = 0 \/ n >= Len(seq) THEN seq ELSE SubSeq(seq, Len(seq) - n + 1, Len(seq))

get_recent_tools(self, n) ==
    LET recent == PySliceLast(self.executed_tools, n)
    IN  [i \in DOMAIN recent |-> recent[i].tool_name]

\* the text is kept as [text, lines]: "no_history" without lines when there
\* is no record, else one line [step, tool_name, reasoning] per record
format_recent_history(self, n) ==
    LET recent == PySliceLast(self.executed_tools, n)
    IN  IF recent = <<>>
        THEN [text |-> "no_history", lines |-> <<>>]
        ELSE [text |-> "steps",
              lines |-> [i \in DOMAIN recent |->
                           [step |-> recent[i].step, tool_name |-> recent[i].tool_name,
                            reasoning |-> recent[i].reasoning]]]

\* the arguments of the calls
RepairRequests ==
    { Dict1("device_name", "shebei"),
      << <<"device_name", "device">>, <<"interface_name", "">>, <<"status", "up">> >>,
      << <<"device_name", "X1">>, <<"ip", "unknown">> >>,
      << <<"interface", "device1">>, <<"device", "device_spine_01x">> >> }

RepairGoals ==
    { [entities |-> Dict1("device", "X1"), context_params |-> Dict0],
      [entities |-> Dict0, context_params |-> Dict0],
      [entities |-> Dict1("device", "X1"), context_params |-> Dict1("device_name", "r1")],
      [entities |-> Dict1("device", "X1"), context_params |-> Dict1("device", "eth0")],
      [entities |-> Dict1("device", "X1"), context_params |-> Dict1("device_name", "unknown")] }

FuzzyCatalogs ==
    { <<>>, <<"ping_test", "query_arp">>, <<"query_arp", "arp">>, <<"ping_test", "test">>,
      <<"query_arp", "ping_test", "pong_test">> }

FuzzyNames == {"", "Ping_Test", "ARP", "arp", "pong_test", "zzz", "test", "finish"}

StrategyCandidates ==
    UNION {[1 .. n -> {LlmCandidate("ping_test"), LlmCandidate("query_arp")}] : n \in 1 .. top_k}

InitCalls ==
    /\ generator = StructuredOutputGenerator_init
    /\ pc = "call"
    /\ max_steps = 0
    /\ stop_reason = NoneValue
    /\ raised = NoneValue
    /\ planner = NoneValue
    /\ \E history \in CallHistories : state = SessionOf(history)
    /\ \/ \E request \in RepairRequests, goal \in RepairGoals :
             call = [method |-> "validate_and_fix_parameters",
                     plan |-> [LlmCandidate("ping_test") EXCEPT !.tool_request = request],
                     goal |-> goal, ret |-> <<>>]
       \/ \E value \in ParameterValues :
             /\ state = StateManager_init
             /\ call = [method |-> "is_valid_parameter_value", value |-> value, ret |-> <<>>]
       \/ \E invalid_name \in FuzzyNames, valid_tools \in FuzzyCatalogs :
             /\ state = StateManager_init
             /\ call = [method |-> "fuzzy_match_tool_name", invalid_name |-> invalid_name,
                        valid_tools |-> valid_tools, ret |-> <<>>]
       \/ \E candidates \in StrategyCandidates, mode \in PlanModes :
             call = [method |-> "apply_exploration_strategy", candidates |-> candidates,
                     exploration_mode |-> mode, ret |-> <<>>]
       \/ \E n \in 0 .. (MaxHistory + 1) :
             call = [method |-> "get_recent_tools", n |-> n, ret |-> <<>>]
       \/ \E n \in 0 .. (MaxHistory + 1) :
             call = [method |-> "format_recent_history", n |-> n, ret |-> <<>>]

CallValidateAndFixParameters ==
    /\ pc = "call"
    /\ call.method = "validate_and_fix_parameters"
    /\ \E plan \in validate_and_fix_parameters(call.plan, state, call.goal) :
          call' = [call EXCEPT !.ret = <<plan>>]
    /\ pc' = "returned"
    /\ UNCHANGED <<state, generator, max_steps, stop_reason, raised, planner>>

CallIsValidParameterValue ==
    /\ pc = "call"
    /\ call.method = "is_valid_parameter_value"
    /\ call' = [call EXCEPT !.ret = <<is_valid_parameter_value(call.value)>>]
    /\ pc' = "returned"
    /\ UNCHANGED <<state, generator, max_steps, stop_reason, raised, planner>>

CallFuzzyMatchToolName ==
    /\ pc = "call"
    /\ call.method = "fuzzy_match_tool_name"
    /\ call' = [call EXCEPT !.ret = <<fuzzy_match_tool_name(call.invalid_name,
                                                            call.valid_tools)>>]
    /\ pc' = "returned"
    /\ UNCHANGED <<state, generator, max_steps, stop_reason, raised, planner>>

CallApplyExplorationStrategy ==
    /\ pc = "call"
    /\ call.method = "apply_exploration_strategy"
    /\ \E selected \in apply_exploration_strategy(call.candidates, state,
                                                  call.exploration_mode) :
          call' = [call EXCEPT !.ret = <<selected>>]
    /\ pc' = "returned"
    /\ UNCHANGED <<state, generator, max_steps, stop_reason, raised, planner>>

CallRecentHistory ==
    /\ pc = "call"
    /\ call.method \in {"get_recent_tools", "format_recent_history"}
    /\ call' = [call EXCEPT !.ret = IF call.method = "get_recent_tools"
                                    THEN <<get_recent_tools(state, call.n)>>
                                    ELSE <<format_recent_history(state, call.n)>>]
    /\ pc' = "returned"
    /\ UNCHANGED <<state, generator, max_steps, stop_reason, raised, planner>>

NextCalls ==
    \/ CallValidateAndFixParameters
    \/ CallIsValidParameterValue
    \/ CallFuzzyMatchToolName
    \/ CallApplyExplorationStrategy
    \/ CallRecentHistory

SpecCalls == InitCalls /\ [][NextCalls]_vars

(***************************************************************************)
(* SpecTrace: the trace of the StructuredOutputGenerator.  Either a caller *)
(* drives one generator through any sequence of start_step and             *)
(* add_action_observation calls (pc = "trace"), or generate drives it      *)
(* (pc = "loop", the iterations of SpecGen).                               *)
(***************************************************************************)
InitTrace ==
    /\ state = StateManager_init
    /\ generator = StructuredOutputGenerator_init
    /\ \/ pc = "trace" /\ max_steps = 0
       \/ pc = "loop" /\ max_steps \in 1 .. MaxMaxSteps
    /\ stop_reason = NoneValue
    /\ raised = NoneValue
    /\ call = NoneValue
    /\ planner = NoneValue

CallStartStep ==
    /\ pc = "trace"
    /\ generator.current_step < MaxTraceSteps
    /\ \E reasoning \in {"check_reachability", "check_all_devices"} :
          generator' = start_step(generator, reasoning)
    /\ UNCHANGED <<state, pc, max_steps, stop_reason, raised, planner, call>>

\* "if not self.steps: raise ValueError", else the pair is appended
CallAddActionObservation ==
    /\ pc = "trace"
    /\ IF generator.steps = <<>>
       THEN /\ raised' = "ValueError"
            /\ pc' = "raised"
            /\ UNCHANGED generator
       ELSE /\ Len(generator.steps[Len(generator.steps)].coa) < MaxTraceSteps
            /\ \E observation \in GenResponses :
                  generator' = add_action_observation(generator, "ping_test", Dict0,
                                                      observation)
            /\ UNCHANGED <<pc, raised>>
    /\ UNCHANGED <<state, max_steps, stop_reason, planner, call>>

NextTrace ==
    \/ CallStartStep
    \/ CallAddActionObservation
    \/ GenStop
    \/ GenPlanError
    \/ GenIterate

SpecTrace == InitTrace /\ [][NextTrace]_vars

\* the max_steps a caller may pass (20 is the default of should_continue)
MaxStepsValues == 0 .. (MaxPolicySteps + 1) \cup {20}

(***************************************************************************)
(* Properties of the session state and of the termination policy.          *)
(***************************************************************************)
RECURSIVE SumCounts(_, _)
SumCounts(counts, names) ==
    IF names = {}
    THEN 0
    ELSE LET n == CHOOSE x \in names : TRUE
         IN  counts[n] + SumCounts(counts, names \ {n})

Occurrences(name) ==
    Cardinality({i \in DOMAIN state.executed_tools :
                    state.executed_tools[i].tool_name = name})

\* C1 as stated: after any sequence of add_execution and
\* update_diagnostic_chain calls, step_count = len(executed_tools) =
\* len(diagnostic_chain).
C1_CountsEqualAfterAnyCalls ==
    /\ state.step_count = Len(state.executed_tools)
    /\ state.step_count = Len(state.diagnostic_chain)

\* C1 amended: after any sequence of calls step_count = len(executed_tools)
\* and the i-th record carries step i; the chain has one entry per
\* update_diagnostic_chain call, each carrying the step_count current at its
\* call (at most step_count, never decreasing along the chain), so its
\* length is free of step_count.
C1_StepCountIsHistoryLength ==
    /\ state.step_count = Len(state.executed_tools)
    /\ \A i \in DOMAIN state.executed_tools : state.executed_tools[i].step = i
    /\ \A i \in DOMAIN state.diagnostic_chain :
          /\ state.diagnostic_chain[i].step \in 0 .. state.step_count
          /\ \A j \in 1 .. (i - 1) :
                state.diagnostic_chain[j].step <= state.diagnostic_chain[i].step

\* two executions recorded and a single chain entry, made before them
C1_Witness ==
    /\ state.step_count = 2
    /\ Len(state.executed_tools) = 2
    /\ Len(state.diagnostic_chain) = 1
    /\ state.diagnostic_chain[1].step = 0

\* C3: for every action name, the usage count is the number of records with
\* that name (0 for a name never recorded), and the counts sum to step_count.
C3_UsageCountsMatchRecords ==
    /\ \A name \in SessionTools \cup {"never_recorded"} :
          get_tool_usage_count(state, name) = Occurrences(name)
    /\ DOMAIN state.tool_usage_count \subseteq SessionTools
    /\ SumCounts(state.tool_usage_count, DOMAIN state.tool_usage_count)
          = state.step_count

\* one name recorded twice with another in between, a third name never
C3_Witness ==
    /\ state.step_count = 3
    /\ state.executed_tools[1].tool_name = "ping_test"
    /\ state.executed_tools[2].tool_name = "query_interface_info"
    /\ state.executed_tools[3].tool_name = "ping_test"
    /\ get_tool_usage_count(state, "ping_test") = 2
    /\ get_tool_usage_count(state, "never_recorded") = 0

\* C4: with step_count >= max_steps the policy stops with StepLimitReached,
\* whatever findings and usage counts exist.
C4_StepLimitFirst ==
    \A m \in MaxStepsValues :
        state.step_count >= m => should_continue(state, m) = <<FALSE, StepLimitReached>>

\* the limit is reached while a high finding and full coverage exist
C4_Witness ==
    /\ state.step_count = CoverageThreshold
    /\ has_critical_finding(state)
    /\ sufficient_coverage(state)
    /\ should_continue(state, CoverageThreshold) = <<FALSE, StepLimitReached>>

\* C5: with a high finding and step_count < max_steps the policy stops with
\* CriticalFindingFound, also when stagnation or coverage hold.
C5_CriticalBeforeStagnationAndCoverage ==
    \A m \in MaxStepsValues :
        ( /\ state.step_count < m
          /\ \E i \in DOMAIN state.findings : state.findings[i].severity = "high" )
        => should_continue(state, m) = <<FALSE, CriticalFindingFound>>

\* a high finding that is older than the window, after a medium one, with
\* eight names used: stagnation and coverage hold as well
C5_Witness ==
    /\ Len(state.findings) = 2
    /\ state.findings[1].severity = "medium"
    /\ state.findings[2].severity = "high"
    /\ state.findings[2].step < state.step_count - 2
    /\ Cardinality(UsedTools) >= CoverageThreshold
    /\ should_continue(state, 20) = <<FALSE, CriticalFindingFound>>

\* the state right after a single add_finding("X", "high") at step_count 2
AfterHighFindingAtStep2 ==
    /\ state.step_count = 2
    /\ state.findings = << [finding |-> "X", severity |-> "high", step |-> 2] >>

\* C6 as stated: right after a single high finding recorded at step_count 2
\* the policy returns (false, CriticalFindingFound) for every max_steps.
C6_CriticalForEveryMaxSteps ==
    AfterHighFindingAtStep2 =>
        \A m \in MaxStepsValues :
            should_continue(state, m) = <<FALSE, CriticalFindingFound>>

\* C6 amended: right after a single high finding recorded at step_count 2
\* the policy stops for every max_steps, with CriticalFindingFound when
\* max_steps > 2 and with StepLimitReached when max_steps <= 2.
C6_CriticalWhenBelowLimit ==
    AfterHighFindingAtStep2 =>
        \A m \in MaxStepsValues :
            should_continue(state, m) =
                IF m > 2 THEN <<FALSE, CriticalFindingFound>>
                         ELSE <<FALSE, StepLimitReached>>

C6_Witness ==
    /\ AfterHighFindingAtStep2
    /\ should_continue(state, 20) = <<FALSE, CriticalFindingFound>>
    /\ should_continue(state, 2) = <<FALSE, StepLimitReached>>

NoHighFinding ==
    \A i \in DOMAIN state.findings : state.findings[i].severity # "high"

FindingInLastThreeSteps ==
    \E i \in DOMAIN state.findings :
        /\ state.findings[i].step >= state.step_count - 2
        /\ state.findings[i].step <= state.step_count

\* C7: when conditions 1 and 2 do not apply, the policy returns Stagnation
\* exactly when step_count >= 3 and no finding has its step in
\* [step_count - 2, step_count].
C7_StagnationExactly ==
    \A m \in MaxStepsValues :
        (state.step_count < m /\ NoHighFinding) =>
            ( should_continue(state, m)[2] = Stagnation
              <=> (state.step_count >= 3 /\ ~FindingInLastThreeSteps) )

\* a finding just outside the window (step_count - 3) does not prevent it
C7_Witness ==
    /\ state.step_count >= 4
    /\ Len(state.findings) = 1
    /\ state.findings[1].severity = "medium"
    /\ state.findings[1].step = state.step_count - 3
    /\ should_continue(state, 20) = <<FALSE, Stagnation>>

\* the decision list of the policy, written from its four conditions
ReferenceDecision(m) ==
    CASE state.step_count >= m -> <<FALSE, StepLimitReached>>
      [] state.step_count < m /\ ~NoHighFinding -> <<FALSE, CriticalFindingFound>>
      [] state.step_count < m /\ NoHighFinding
         /\ state.step_count >= 3 /\ ~FindingInLastThreeSteps -> <<FALSE, Stagnation>>
      [] state.step_count < m /\ NoHighFinding
         /\ ~(state.step_count >= 3 /\ ~FindingInLastThreeSteps)
         /\ Cardinality({state.executed_tools[i].tool_name :
                            i \in DOMAIN state.executed_tools}) >= 8
            -> <<FALSE, SufficientCoverage>>
      [] OTHER -> <<TRUE, InProgress>>

\* C8: the policy's result is the first matching of StepLimitReached,
\* CriticalFindingFound, Stagnation, SufficientCoverage (8 distinct names or
\* more), else (true, InProgress); it continues exactly when InProgress.
C8_PolicyIsReferenceDecision ==
    \A m \in MaxStepsValues :
        /\ should_continue(state, m) = ReferenceDecision(m)
        /\ should_continue(state, m)[1] <=> should_continue(state, m)[2] = InProgress

\* exactly eight names used and a recent finding: coverage decides
C8_Witness ==
    /\ Cardinality(UsedTools) = CoverageThreshold
    /\ NoHighFinding
    /\ FindingInLastThreeSteps
    /\ should_continue(state, 20) = <<FALSE, SufficientCoverage>>

\* the session of the scenario: only add_execution calls, each with a new
\* name, at most five of them
DistinctNamesNoFindings ==
    /\ state.findings = <<>>
    /\ Cardinality(UsedTools) = state.step_count
    /\ state.step_count <= 5

\* C9 as stated: with max_steps = 5, five add_execution calls with distinct
\* names and no findings, the policy continues until it stops after step 5
\* with StepLimitReached.
C9_StopsAtStepFiveOnly ==
    DistinctNamesNoFindings =>
        should_continue(state, 5) =
            IF state.step_count = 5 THEN <<FALSE, StepLimitReached>>
                                    ELSE <<TRUE, InProgress>>

\* C9 amended: in that session the policy continues after steps 0, 1 and 2
\* and first stops after step 3, with reason Stagnation (also after step
\* 4); StepLimitReached is returned only by an evaluation after step 5.
C9_StopsAtStepThreeStagnation ==
    DistinctNamesNoFindings =>
        should_continue(state, 5) =
            IF state.step_count < 3 THEN <<TRUE, InProgress>>
            ELSE IF state.step_count < 5 THEN <<FALSE, Stagnation>>
            ELSE <<FALSE, StepLimitReached>>

C9_Witness ==
    /\ DistinctNamesNoFindings
    /\ state.step_count = 3
    /\ should_continue(state, 5) = <<FALSE, Stagnation>>

\* C10: step_count starts at 0 and no operation decreases it, and once the
\* policy returns StepLimitReached for some max_steps it does so for that
\* max_steps after every further operation.
C10_StepLimitIsPermanent ==
    /\ state.step_count = 0
    /\ [][ /\ state'.step_count >= state.step_count
           /\ \A m \in MaxStepsValues :
                 should_continue(state, m) = <<FALSE, StepLimitReached>>
                 => should_continue(state', m) = <<FALSE, StepLimitReached>> ]_vars

\* the limit 2 was reached, and a high finding and a chain entry came later
C10_Witness ==
    /\ state.step_count = 3
    /\ Len(state.findings) = 1
    /\ state.findings[1].severity = "high"
    /\ state.findings[1].step = 3
    /\ Len(state.diagnostic_chain) = 1
    /\ should_continue(state, 2) = <<FALSE, StepLimitReached>>

\* the states the loop of generate evaluates the policy in
AtLoopHead == pc \in {"loop", "stopped", "plan_failed"}

\* C2: at every loop head of generate step_count = len(executed_tools) =
\* len(diagnostic_chain), and an iteration that returns to the loop head has
\* added exactly one record and exactly one chain entry.
C2_LoopHeadCountsEqual ==
    /\ [](AtLoopHead =>
            /\ state.step_count = Len(state.executed_tools)
            /\ state.step_count = Len(state.diagnostic_chain))
    /\ [][ (pc = "loop" /\ pc' = "loop") =>
             /\ Len(state'.executed_tools) = Len(state.executed_tools) + 1
             /\ Len(state'.diagnostic_chain) = Len(state.diagnostic_chain) + 1
             /\ state'.step_count = state.step_count + 1 ]_vars

\* two iterations are complete, one whose plan had no next_focus
C2_Witness ==
    /\ pc = "loop"
    /\ state.step_count = 2
    /\ Len(state.diagnostic_chain) = 2
    /\ state.diagnostic_chain[2].next_focus = NoneValue
    /\ generator.current_step = 2

\* C11 as stated: add_execution never fails: for every observation (a dict,
\* a list, an error-tagged dict) the call completes normally, having
\* incremented step_count by 1, appended exactly one record and incremented
\* the usage count of the name by 1.
C11_AddExecutionNeverFails ==
    [][ Len(state'.executed_tools) > Len(state.executed_tools) =>
          LET name == state'.executed_tools[Len(state'.executed_tools)].tool_name
          IN  /\ raised' = NoneValue
              /\ state'.step_count = state.step_count + 1
              /\ Len(state'.executed_tools) = Len(state.executed_tools) + 1
              /\ get_tool_usage_count(state', name)
                    = get_tool_usage_count(state, name) + 1 ]_vars

\* an observation carrying the error marker: a dict with the key 'error'
ErrorMarked(observation) ==
    observation.kind = "dict" /\ HasKey(observation.dict, "error")

LastStep(gen) == gen.steps[Len(gen.steps)]

\* C12: an iteration of generate whose executor result is error-marked adds
\* exactly one action/observation pair to its trace step (one executor
\* call), records that observation as exactly one ordinary record, raises
\* nothing and returns to the loop head, where the policy does not stop with
\* CriticalFindingFound on account of it.
C12_ErrorObservationRecordedOnce ==
    [][ ( /\ pc = "loop"
          /\ generator'.current_step = generator.current_step + 1
          /\ \E k \in DOMAIN LastStep(generator').coa :
                ErrorMarked(LastStep(generator').coa[k].observation) )
        => /\ Len(LastStep(generator').coa) = 1
           /\ Len(state'.executed_tools) = Len(state.executed_tools) + 1
           /\ state'.executed_tools[Len(state'.executed_tools)].tool_response
                 = LastStep(generator').coa[1].observation
           /\ state'.step_count = state.step_count + 1
           /\ raised' = NoneValue
           /\ pc' = "loop"
           /\ should_continue(state', max_steps)[2] # CriticalFindingFound ]_vars

\* the first step's observation was error-marked, and the loop goes on
C12_Witness ==
    /\ pc = "loop"
    /\ state.step_count = 1
    /\ ErrorMarked(state.executed_tools[1].tool_response)
    /\ Len(generator.steps[1].coa) = 1
    /\ should_continue(state, max_steps) = <<TRUE, InProgress>>

(***************************************************************************)
(* Properties of the planner (SpecPlan).                                   *)
(***************************************************************************)
\* the names in the catalog of the run
CatalogNames == {planner.tool_manager.tools[i] : i \in DOMAIN planner.tool_manager.tools}

\* select_next_tool has returned and the loop has its plan
Returned == pc \in {"planned", "plan_failed"}

\* C13: with a non-empty catalog select_next_tool never returns a failure:
\* whatever the collaborator answers (invalid names, texts that do not
\* parse, failed calls, on any or all requests), the plan it returns names
\* a tool and has no 'error', and the loop does not stop for planning.
C13_NonEmptyCatalogAlwaysPlans ==
    planner.tool_manager.tools # <<>> =>
        /\ pc # "plan_failed"
        /\ Returned => /\ "error" \notin DOMAIN planner.result[1]
                       /\ "tool_name" \in DOMAIN planner.result[1]
                       /\ planner.result[1].tool_name # ""

\* every one of the ten requests failed and the last resort still gave a
\* tool of the catalog, all of whose tools had been used already
C13_Witness ==
    /\ pc = "planned"
    /\ planner.tool_manager.tools = <<"query_arp">>
    /\ state.step_count = 1
    /\ get_tool_usage_count(state, "query_arp") = 1
    /\ planner.requests = 10
    /\ planner.via = "last_resort"
    /\ planner.result[1].tool_name = "query_arp"

\* C14 as stated: with an empty catalog select_next_tool returns a failure
\* whatever the collaborator answers, and the loop exits without executing
\* or recording any action.
C14_EmptyCatalogAlwaysFails ==
    planner.tool_manager.tools = <<>> =>
        /\ pc # "planned"
        /\ state.step_count = 0
        /\ state.executed_tools = <<>>
        /\ generator.steps = <<>>

\* C14 amended: with an empty catalog select_next_tool returns an action
\* only when an answer of the collaborator names finish_diagnosis or finish
\* (the action is that answer, never a last-resort choice), and otherwise
\* returns a failure after the strict re-query (4 to 10 requests, none of
\* which named a finish action); on a failure the loop exits
\* with the session and the trace as they were at the loop head, so only
\* finish actions are ever executed or recorded.
C14_EmptyCatalogFailsUnlessFinish ==
    /\ [](planner.tool_manager.tools = <<>> =>
            /\ pc = "planned" => /\ planner.result[1].tool_name \in {"finish_diagnosis", "finish"}
                                 /\ planner.via \in {"sampling", "strict"}
            /\ pc = "plan_failed" => /\ "error" \in DOMAIN planner.result[1]
                                     /\ planner.via = "last_resort"
                                     /\ planner.requests \in 4 .. 10
                                     /\ Len(generator.steps) = state.step_count
            /\ \A i \in DOMAIN state.executed_tools :
                  state.executed_tools[i].tool_name \in {"finish_diagnosis", "finish"})
    /\ [][ (planner.tool_manager.tools = <<>> /\ planner'.via = "last_resort")
           => (pc' = "plan_failed" /\ state' = state /\ generator' = generator) ]_vars

\* a finish action was executed at step 1, and the next call failed
C14_Witness ==
    /\ planner.tool_manager.tools = <<>>
    /\ pc = "plan_failed"
    /\ state.step_count = 1
    /\ state.executed_tools[1].tool_name = "finish"
    /\ Len(generator.steps) = 1

\* C15 as stated: every action select_next_tool returns without failure has
\* a name of the catalog, on every path.
C15_ReturnedNameInCatalog ==
    pc = "planned" => planner.result[1].tool_name \in CatalogNames

\* C15 amended: every action select_next_tool returns without failure has a
\* name of the catalog or one of the two names finish_diagnosis and finish,
\* on every path (sampling, strict re-query, fuzzy match, last resort); any
\* other name the collaborator proposes is never returned or recorded, and
\* a fuzzy match is a name of the catalog.
C15_ReturnedNameInCatalogOrFinish ==
    /\ pc = "planned" =>
          /\ planner.result[1].tool_name \in CatalogNames \cup {"finish_diagnosis", "finish"}
          /\ planner.via \in {"sampling", "strict", "fuzzy", "last_resort"}
          /\ planner.via = "fuzzy" => planner.result[1].tool_name \in CatalogNames
    /\ \A i \in DOMAIN state.executed_tools :
          state.executed_tools[i].tool_name \in CatalogNames \cup {"finish_diagnosis", "finish"}

\* the strict re-query was answered with a name that is not in the catalog
\* and fuzzy matching replaced it by the catalog's ping_test
C15_Witness ==
    /\ pc = "planned"
    /\ planner.tool_manager.tools = <<"ping_test", "query_arp">>
    /\ planner.via = "fuzzy"
    /\ planner.result[1].tool_name = "ping_test"

\* C16: one select_next_tool call makes at most 3 sampling attempts of at
\* most 3 requests each and then at most one strict re-query, one request
\* at a time: at most 10 requests, after which it has returned.
C16_BoundedRequests ==
    /\ [](pc \in {"planning", "planned", "plan_failed"} =>
            /\ planner.requests <= 10
            /\ planner.phase = "sampling" =>
                  /\ planner.retry \in 0 .. 2
                  /\ planner.i \in 0 .. 2
                  /\ planner.requests <= 3 * planner.retry + planner.i
            /\ planner.phase = "strict" => planner.requests <= 9
            /\ planner.requests = 10 => planner.phase = "returned")
    /\ [][ pc = "planning" => /\ planner'.requests = planner.requests + 1
                              /\ planner.phase = "strict" => planner'.phase = "returned" ]_vars

\* a call that used all ten requests
C16_Witness ==
    /\ Returned
    /\ planner.requests = 10
    /\ planner.via = "strict"

\* C17: every run of generate's loop ends within max_steps iterations: an
\* iteration that returns to the loop head has increased step_count by at
\* least 1, no iteration starts once the policy returns false, after
\* max_steps iterations the policy returns false, and a loop that was left
\* (policy false, planner failure, or an exception) takes no further step.
C17_LoopTerminatesWithinMaxSteps ==
    /\ [](/\ generator.current_step <= max_steps
          /\ pc = "loop" => state.step_count >= generator.current_step
          /\ (pc = "loop" /\ generator.current_step = max_steps)
                => ~should_continue(state, max_steps)[1])
    /\ [][ /\ (pc = "loop" /\ pc' = "loop") =>
                /\ state'.step_count >= state.step_count + 1
                /\ generator'.current_step = generator.current_step + 1
           /\ (pc = "loop" /\ ~should_continue(state, max_steps)[1]) =>
                /\ pc' = "stopped"
                /\ state' = state
                /\ generator' = generator
           /\ pc # "loop" => pc' = pc ]_vars

\* a run that used all its iterations and was stopped by the step limit
C17_Witness ==
    /\ pc = "stopped"
    /\ stop_reason = StepLimitReached
    /\ max_steps >= 2
    /\ generator.current_step = max_steps
    /\ state.step_count = max_steps

(***************************************************************************)
(* Properties of the registry of known entities and of the fan-out.        *)
(***************************************************************************)
\* the identifiers the fan-out of the iteration that starts in this state
\* would run over (the new trace step gets one pair per executor call)
FanOutStep ==
    /\ pc = "loop"
    /\ pc' = "loop"
    /\ generator'.current_step = generator.current_step + 1
    /\ Len(LastStep(generator').coa) > 1

C19_RegistryOnlyGrows ==
    [][ \A t \in DOMAIN generator.known_entities :
          /\ t \in DOMAIN generator'.known_entities
          /\ \A i \in DOMAIN generator.known_entities[t] :
                \E j \in DOMAIN generator'.known_entities[t] :
                    generator'.known_entities[t][j] = generator.known_entities[t][i] ]_vars

\* C20: in every reachable state no known_entities[type] holds an identifier
\* twice or holds the empty string.
C20_NoDuplicatesNoEmptyStrings ==
    \A t \in DOMAIN generator.known_entities :
        LET ids == generator.known_entities[t]
        IN  /\ \A i, j \in DOMAIN ids : ids[i] = ids[j] => i = j
            /\ \A i \in DOMAIN ids : ids[i] # ""

(***************************************************************************)
(* Properties of the findings.                                             *)
(***************************************************************************)
\* C21: every finding stored in a session driven by generate's loop has a
\* severity among low, medium and high and the step_count current when it
\* was recorded, and is never changed or removed afterwards.
C21_FindingsWellFormed ==
    /\ [](\A i \in DOMAIN state.findings :
            /\ state.findings[i].severity \in {"low", "medium", "high"}
            /\ state.findings[i].step \in 1 .. state.step_count)
    /\ [][ /\ Len(state'.findings) >= Len(state.findings)
           /\ \A i \in DOMAIN state.findings : state'.findings[i] = state.findings[i]
           /\ \A i \in (DOMAIN state'.findings) \ (DOMAIN state.findings) :
                 state'.findings[i].step = state'.step_count ]_vars

(***************************************************************************)
(* Properties of single calls (SpecCalls).                                 *)
(***************************************************************************)
\* the call of the method has returned
Returns(method) == pc = "returned" /\ call.method = method

\* C22: repair of an action whose device_name is the placeholder word for
\* "device" (shebei), with a goal whose entities.device is X1, no context
\* parameters and an empty history, gives device_name exactly X1.
C22_PlaceholderDeviceBecomesX1 ==
    ( /\ Returns("validate_and_fix_parameters")
      /\ HasKey(call.plan.tool_request, "device_name")
      /\ GetKey(call.plan.tool_request, "device_name") = "shebei"
      /\ call.goal.entities = Dict1("device", "X1")
      /\ call.goal.context_params = Dict0
      /\ state.executed_tools = <<>> )
    => GetKey(call.ret[1].tool_request, "device_name") = "X1"

C22_Witness ==
    /\ Returns("validate_and_fix_parameters")
    /\ call.plan.tool_request = Dict1("device_name", "shebei")
    /\ call.goal = [entities |-> Dict1("device", "X1"), context_params |-> Dict0]
    /\ state.executed_tools = <<>>
    /\ call.ret[1].tool_request = Dict1("device_name", "X1")

\* the names of the last k records of the session, oldest first
LastNames(k) ==
    [i \in 1 .. k |-> state.executed_tools[Len(state.executed_tools) - k + i].tool_name]

\* C23: get_recent_tools(n) and format_recent_history(n) return exactly the
\* last min(n, len(executed_tools)) records in their original order for
\* every n >= 0, none for n = 0, and leave the session as it was.
C23_RecentHistoryIsLastN ==
    /\ [](LET k == IF call.n < Len(state.executed_tools)
                   THEN call.n ELSE Len(state.executed_tools)
          IN  /\ Returns("get_recent_tools") => call.ret[1] = LastNames(k)
              /\ Returns("format_recent_history") =>
                    /\ Len(call.ret[1].lines) = k
                    /\ \A i \in 1 .. k : call.ret[1].lines[i].tool_name = LastNames(k)[i])
    /\ [][ call.method \in {"get_recent_tools", "format_recent_history"}
           => state' = state ]_vars

(***************************************************************************)
(* Properties of the order of the planner's phases (SpecPlan).             *)
(***************************************************************************)
\* the answers to the strict re-query after which select_next_tool may be
\* in the state after
StrictAnswers(after) ==
    {outcome \in PlanOutcomes : after \in strict_step(planner, state, PlanGoal, outcome)}

\* C24: within one select_next_tool call the phases occur only in the order
\* sampling (with its retries), strict re-query, fuzzy match, last resort:
\* the strict re-query is sent only after every sampling attempt ended
\* without a valid selection, fuzzy matching gives the result only when the
\* strict re-query was answered with a name that is not in the catalog, the
\* last resort only when neither gave a name, and no phase is entered
\* again after a later one started.
C24_PhaseOrder ==
    /\ [](planner.phase = "strict" =>
            /\ planner.retry = max_retries - 1
            /\ planner.requests >= max_retries
            /\ planner.candidates = <<>>
            /\ planner.result = <<>>)
    /\ [][ pc = "planning" =>
            /\ planner.phase = "sampling" =>
                  /\ planner'.phase \in {"sampling", "strict", "returned"}
                  /\ planner'.retry >= planner.retry \/ planner'.phase = "returned"
                  /\ planner'.phase = "returned" => planner'.via = "sampling"
                  /\ planner'.phase = "strict" => planner.retry = max_retries - 1
            /\ planner.phase = "strict" =>
                  /\ planner'.phase = "returned"
                  /\ planner'.via \in {"strict", "fuzzy", "last_resort"}
            /\ planner.phase = "strict" /\ planner'.via = "fuzzy" =>
                  \E outcome \in StrictAnswers(planner') :
                      /\ outcome.kind = "candidate"
                      /\ outcome.tool_name \notin CatalogNames
                      /\ planner'.result[1].tool_name \in CatalogNames
            /\ planner.phase = "strict" /\ planner'.via = "last_resort" =>
                  \A outcome \in StrictAnswers(planner') :
                      \/ outcome.kind # "candidate"
                      \/ /\ outcome.tool_name \notin CatalogNames \cup {"finish_diagnosis", "finish"}
                         /\ fuzzy_match_tool_name(outcome.tool_name,
                                                  planner.tool_manager.tools) = NoneValue ]_vars

\* every sampling request was answered without a valid name, the strict
\* re-query was answered with pong_test and fuzzy matching gave ping_test
C24_Witness ==
    /\ pc = "planned"
    /\ planner.requests = 10
    /\ planner.via = "fuzzy"
    /\ planner.tool_manager.tools = <<"ping_test", "query_arp">>
    /\ planner.result[1].tool_name = "ping_test"
    /\ state.step_count = 1

(***************************************************************************)
(* Properties of the fan-out decision of one iteration.                    *)
(***************************************************************************)
\* the identifiers known for the type that matches the tool of the step
KnownIdentifiers(gen, tool_name) ==
    {get_relevant_entities(gen, tool_name)[i] :
        i \in DOMAIN get_relevant_entities(gen, tool_name)}

\* the executor calls of the newest step of the trace made with this
\* identifier in the argument of the tool's type
CallsFor(gen, identifier) ==
    {i \in DOMAIN LastStep(gen).coa :
        \/ GetKey(LastStep(gen).coa[i].action.args, "interface_name") = identifier
              /\ LastStep(gen).coa[i].action.name \in InterfaceToolNames
        \/ GetKey(LastStep(gen).coa[i].action.args, "device_name") = identifier
              /\ LastStep(gen).coa[i].action.name \in DeviceToolNames}

C25_FanOutIffManyAndCue_NoDuplicates ==
    [][ /\ pc = "loop"
        /\ generator'.current_step = generator.current_step + 1
        /\ \A t \in DOMAIN generator.known_entities :
              Cardinality({generator.known_entities[t][i] :
                              i \in DOMAIN generator.known_entities[t]})
                  = Len(generator.known_entities[t])
        => LET step == LastStep(generator')
               ids == KnownIdentifiers(generator, step.coa[1].action.name)
           IN  IF Cardinality(ids) > 1 /\ step.cot \in CueReasonings
               THEN /\ Len(step.coa) = Cardinality(ids)
                    /\ \A identifier \in ids :
                           Cardinality(CallsFor(generator', identifier)) = 1
               ELSE Len(step.coa) = 1 ]_vars

(***************************************************************************)
(* Properties of the candidate scores and of the greedy selection.         *)
(***************************************************************************)
\* (number of candidates - rank index) + 2 / (usage count + 1) of the
\* candidate at position k of the call's list, as <<numerator, denominator>>
ClaimedScore(k) ==
    LET n == Len(call.candidates)
        usage == get_tool_usage_count(state, call.candidates[k].tool_name)
    IN  <<(n - (k - 1)) * (usage + 1) + 2, usage + 1>>

\* C26: in greedy mode the selected candidate is one with the maximum
\* score, the score being (number of candidates - rank index) +
\* 2 / (usage count + 1); of 3 candidates whose tools were never used the
\* one at rank 0 is selected; every score is strictly positive.
C26_GreedySelectsMaximumScore ==
    Returns("apply_exploration_strategy") /\ call.exploration_mode = "greedy" =>
        /\ \E k \in DOMAIN call.candidates :
              /\ call.ret[1] = PlanSet(call.candidates[k], "score", ClaimedScore(k))
              /\ \A j \in DOMAIN call.candidates :
                    ClaimedScore(j)[1] * ClaimedScore(k)[2]
                        <= ClaimedScore(k)[1] * ClaimedScore(j)[2]
        /\ \A k \in DOMAIN call.candidates :
              ClaimedScore(k)[1] > 0 /\ ClaimedScore(k)[2] > 0
        /\ ( /\ Len(call.candidates) = 3
             /\ \A k \in DOMAIN call.candidates :
                   get_tool_usage_count(state, call.candidates[k].tool_name) = 0 )
           => call.ret[1] = PlanSet(call.candidates[1], "score", <<5, 1>>)

\* greedy selected rank 0 of three candidates whose tools were never used
C26_Witness ==
    /\ Returns("apply_exploration_strategy")
    /\ call.exploration_mode = "greedy"
    /\ Len(call.candidates) = 3
    /\ state.step_count = 0
    /\ call.candidates[1].tool_name = "query_arp"
    /\ call.candidates[2].tool_name = "ping_test"
    /\ call.ret[1].tool_name = "query_arp"
    /\ call.ret[1].score = <<5, 1>>

(***************************************************************************)
(* Properties of the parameter repair.                                     *)
(***************************************************************************)
\* the concrete values of the type of the argument name that the goal's
\* entities, the goal's context parameters and the history hold
InEntities(name) == KnownOfRequest(call.goal.entities, request_key_type[name])

InContext(name) == KnownOfRequest(call.goal.context_params, request_key_type[name])

InHistory(name) ==
    UNION {KnownOfExecution(state.executed_tools[i], request_key_type[name]) :
              i \in DOMAIN state.executed_tools}

\* the argument at position i of the call's request is a placeholder
IsPlaceholderArgument(i) == ~value_is_valid[call.plan.tool_request[i][2]]

\* C27: for each placeholder argument the repair substitutes the first
\* concrete value of the matching type in the order goal entities, goal
\* context parameters, history: a value of a later source is never chosen
\* when an earlier source holds a concrete value of that type.
C27_EarlierSourceWins ==
    Returns("validate_and_fix_parameters") =>
        \A i \in DOMAIN call.plan.tool_request :
            LET name == call.plan.tool_request[i][1]
                new == call.ret[1].tool_request[i][2]
            IN  IsPlaceholderArgument(i) /\ request_key_type[name] # NoneValue =>
                    /\ InEntities(name) # {} => new \in InEntities(name)
                    /\ InEntities(name) = {} /\ InContext(name) # {} => new \in InContext(name)
                    /\ InEntities(name) = {} /\ InContext(name) = {} /\ InHistory(name) # {}
                          => new \in InHistory(name)

\* the known values of the type of the argument name
KnownFor(name) ==
    IF request_key_type[name] = NoneValue
    THEN {}
    ELSE extract_known_parameters(state, call.goal)[request_key_type[name]]

\* C28: the repair changes only arguments that are classified as
\* placeholders and have a known value of the matching type, and gives them
\* such a value; every concrete argument, every placeholder without a known
\* value, the argument names and their order, the tool name and the other
\* fields of the plan are unchanged, and the repair returns the plan
\* without an error whether or not a placeholder stays unresolved.
C28_RepairChangesOnlyResolvablePlaceholders ==
    Returns("validate_and_fix_parameters") =>
        LET before == call.plan.tool_request
            after == call.ret[1].tool_request
        IN  /\ DOMAIN call.ret[1] = DOMAIN call.plan
            /\ \A f \in DOMAIN call.plan \ {"tool_request"} : call.ret[1][f] = call.plan[f]
            /\ "error" \notin DOMAIN call.ret[1]
            /\ Len(after) = Len(before)
            /\ \A i \in DOMAIN before :
                  /\ after[i][1] = before[i][1]
                  /\ IF IsPlaceholderArgument(i) /\ KnownFor(before[i][1]) # {}
                     THEN after[i][2] \in KnownFor(before[i][1])
                     ELSE after[i][2] = before[i][2]

\* the placeholder device_name was repaired from the goal's entities, the
\* empty interface_name had no known value and stayed, status stayed
C28_Witness ==
    /\ Returns("validate_and_fix_parameters")
    /\ state.step_count = 0
    /\ call.plan.tool_request =
          << <<"device_name", "device">>, <<"interface_name", "">>, <<"status", "up">> >>
    /\ call.ret[1].tool_request =
          << <<"device_name", "X1">>, <<"interface_name", "">>, <<"status", "up">> >>

(***************************************************************************)
(* Properties of the classification of an argument value.                  *)
(***************************************************************************)
\* the generic nouns and the unknown markers, as character sequences
GenericWords == {Chars(invalid_patterns[k]) : k \in DOMAIN invalid_patterns}

\* the value of the call is missing or empty
IsEmptyValue == call.value = NoneValue \/ call.value = ""

\* the value is, case and surrounding blanks aside, a generic noun or an
\* unknown marker
IsBareWord == Strip(Lower(call.value)) \in GenericWords

\* the value is shorter than the minimum length and has no '/' and no '.'
IsShortAndPlain ==
    /\ Len(Chars(call.value)) < 15
    /\ \A i \in DOMAIN Chars(call.value) : Chars(call.value)[i] \notin {"/", "."}

\* the value holds a generic noun or an unknown marker somewhere
HoldsGenericWord ==
    \E word \in GenericWords : Contains(word, Strip(Lower(call.value)))

ExactMatches ==
    {call.valid_tools[i] : i \in {j \in DOMAIN call.valid_tools :
        Lower(call.valid_tools[j]) = Strip(Lower(call.invalid_name))}}

\* the valid names that contain the invalid name or are contained in it,
\* case ignored
SubstringMatches ==
    {call.valid_tools[i] : i \in {j \in DOMAIN call.valid_tools :
        \/ Contains(Strip(Lower(call.invalid_name)), Lower(call.valid_tools[j]))
        \/ Contains(Lower(call.valid_tools[j]), Strip(Lower(call.invalid_name)))}}

\* C30: the fuzzy match of an invalid name returns no match or a member of
\* the valid names; an exact match (case ignored) is returned before any
\* substring match, a substring match before any similarity match, and a
\* similarity match only when its similarity is above 0.6; without a name
\* or without valid names there is no match.
C30_FuzzyMatchPrecedence ==
    Returns("fuzzy_match_tool_name") =>
        LET match == call.ret[1]
            members == {call.valid_tools[i] : i \in DOMAIN call.valid_tools}
        IN  /\ match = NoneValue \/ match \in members
            /\ call.invalid_name = "" \/ members = {} => match = NoneValue
            /\ call.invalid_name # "" /\ members # {} =>
                  /\ ExactMatches # {} => match \in ExactMatches
                  /\ ExactMatches = {} /\ SubstringMatches # {} => match \in SubstringMatches
                  /\ ExactMatches = {} /\ SubstringMatches = {} /\ match # NoneValue =>
                        simple_similarity(call.invalid_name, match)[1] * 10
                            > 6 * simple_similarity(call.invalid_name, match)[2]

\* 'ARP' is contained in 'query_arp', which comes first, and equals 'arp'
\* when case is ignored: 'arp' is returned
C30_Witness ==
    /\ Returns("fuzzy_match_tool_name")
    /\ call.invalid_name = "ARP"
    /\ call.valid_tools = <<"query_arp", "arp">>
    /\ call.ret[1] = "arp"

(***************************************************************************)
(* Properties of the last-resort selection.                                *)
(***************************************************************************)
\* select_next_tool has returned the plan of _select_fallback_tool
LastResortReturned ==
    /\ pc = "planned"
    /\ planner.via = "last_resort"
    /\ planner.tool_manager.tools # <<>>

\* C31: reached with a non-empty catalog, the last resort returns a catalog
\* tool that was never used if there is one, and otherwise a catalog tool
\* whose usage count is minimal among the catalog tools; the session and
\* the goal determine the tool.
C31_LastResortLeastUsedCatalogTool ==
    LastResortReturned =>
        LET name == planner.result[1].tool_name
        IN  /\ name \in CatalogNames
            /\ \A t \in CatalogNames :
                  get_tool_usage_count(state, name) <= get_tool_usage_count(state, t)
            /\ Cardinality({plan.tool_name :
                               plan \in validate_and_fix_parameters(
                                   select_fallback_tool(planner.tool_manager, state, PlanGoal),
                                   state, PlanGoal)}) = 1

\* the same for the sessions in which no tool outside the catalog was used
C31_LastResortLeastUsedCatalogTool_CatalogOnly ==
    LastResortReturned /\ DOMAIN state.tool_usage_count \subseteq CatalogNames =>
        LET name == planner.result[1].tool_name
        IN  /\ name \in CatalogNames
            /\ \A t \in CatalogNames :
                  get_tool_usage_count(state, name) <= get_tool_usage_count(state, t)

(***************************************************************************)
(* Properties of the entity extraction of generate.                        *)
(***************************************************************************)
\* the values the recorded dict observations hold under one of the keys
FieldValues(keys) ==
    UNION {{GetKey(state.executed_tools[i].tool_response.dict, k) :
               k \in {key \in keys : HasKey(state.executed_tools[i].tool_response.dict, key)}} :
           i \in {j \in DOMAIN state.executed_tools :
                     state.executed_tools[j].tool_response.kind = "dict"}}

\* the identifiers of the registry of one type
Registered(entity_type) ==
    IF entity_type \in DOMAIN generator.known_entities
    THEN {generator.known_entities[entity_type][i] :
             i \in DOMAIN generator.known_entities[entity_type]}
    ELSE {}

\* C32: the extraction is specific to the type: the interface registry holds
\* only values of interface identifier fields of the observations and the
\* device registry only values of device identifier fields.
C32_ExtractionIsTypeSpecific ==
    /\ Registered("interfaces") \subseteq FieldValues({"jiekou", "interface", "interface_name"})
    /\ Registered("devices") \subseteq FieldValues({"shebei", "device", "device_name"})

(***************************************************************************)
(* Properties of one sampling attempt.                                     *)
(***************************************************************************)
\* C33: within one sampling attempt of top_k requests a request that fails
\* or is answered with nothing parseable contributes no candidate for that
\* request only: the valid candidates of the earlier requests of the
\* attempt are kept and scored, so an attempt that has a valid candidate
\* goes on with it or ends with a selection, and a retry (or the strict
\* re-query) follows only an attempt without any valid candidate.
C33_FailedRequestKeepsEarlierCandidates ==
    [][ /\ pc = "planning"
        /\ planner.phase = "sampling"
        /\ planner.candidates # <<>>
        => \/ /\ planner'.phase = "returned"
              /\ planner'.via = "sampling"
           \/ /\ planner'.phase = "sampling"
              /\ planner'.retry = planner.retry
              /\ Len(planner'.candidates) >= Len(planner.candidates)
              /\ SubSeq(planner'.candidates, 1, Len(planner.candidates))
                    = planner.candidates ]_vars

(***************************************************************************)
(* The registry and the fan-out inside generate.                           *)
(***************************************************************************)
\* an iteration of generate ran: a new step of the trace exists
IterationRan == generator'.current_step = generator.current_step + 1

FindingContents ==
    {"anomaly_interface_status_down", "anomaly_error_statistics", "data_ok_no_anomaly"}
    \cup {RecordsFetched[n] : n \in DOMAIN RecordsFetched}

C36_PlannerFailureLeavesEverythingUnchanged ==
    /\ [][ (pc \in {"loop", "planning"} /\ pc' \in {"planning", "planned", "plan_failed"})
              => (state' = state /\ generator' = generator) ]_vars
    /\ [][ pc # "plan_failed" ]_vars
    /\ [](pc = "plan_failed" =>
              /\ "error" \in DOMAIN planner.result[1]
              /\ Len(generator.steps) = state.step_count
              /\ generator.current_step = state.step_count
              /\ Len(state.executed_tools) = state.step_count)

\* one action was executed, then the selection of the second step failed
C36_Witness ==
    /\ pc = "plan_failed"
    /\ state.step_count = 1
    /\ Len(generator.steps) = 1
    /\ Len(generator.steps[1].coa) = 1
    /\ planner.requests > 0

(***************************************************************************)
(* The repair applied to its own result.                                   *)
(***************************************************************************)
\* C37: the parameter repair is idempotent: applied to its own result, with
\* the same session and goal, _validate_and_fix_parameters returns that
\* result, whatever order the lists of known values have, because every
\* value it substituted is classified as concrete.
C37_RepairIsIdempotent ==
    Returns("validate_and_fix_parameters") =>
        /\ validate_and_fix_parameters(call.ret[1], state, call.goal) = {call.ret[1]}
        /\ \A i \in DOMAIN call.plan.tool_request :
              call.ret[1].tool_request[i] # call.plan.tool_request[i] =>
                  is_valid_parameter_value(call.ret[1].tool_request[i][2])

\* the placeholder was repaired with one of two known devices, and the
\* goal holds a placeholder that is not among the known values
C37_Witness ==
    /\ Returns("validate_and_fix_parameters")
    /\ call.plan.tool_request = Dict1("device_name", "shebei")
    /\ call.goal.context_params = Dict1("device_name", "unknown")
    /\ Len(state.executed_tools) = 1
    /\ state.executed_tools[1].tool_request = Dict1("device_name", "r1")
    /\ call.ret[1].tool_request = Dict1("device_name", "r1")

(***************************************************************************)
(* The selection among the candidates in the three modes.                  *)
(***************************************************************************)
\* the positions of the call's list whose candidate, with its score, is
\* the returned one
SelectedPositions ==
    {k \in DOMAIN call.candidates :
        call.ret[1] = PlanSet(call.candidates[k], "score", ClaimedScore(k))}

\* the positions whose score no other position exceeds
TopPositions ==
    {k \in DOMAIN call.candidates :
        \A j \in DOMAIN call.candidates :
            ClaimedScore(j)[1] * ClaimedScore(k)[2] <= ClaimedScore(k)[1] * ClaimedScore(j)[2]}

\* C38: in each of the modes greedy, balanced and exploratory the candidate
\* _apply_exploration_strategy returns for a non-empty list is a member of
\* that list; balanced with a single candidate returns that candidate; and
\* greedy returns, of the candidates with the top score, the one of the
\* lowest rank index.
C38_SelectedIsMemberTiesToLowestRank ==
    Returns("apply_exploration_strategy") =>
        /\ SelectedPositions # {}
        /\ call.exploration_mode = "balanced" /\ Len(call.candidates) = 1 =>
              1 \in SelectedPositions
        /\ call.exploration_mode = "greedy" =>
              (CHOOSE k \in TopPositions : \A j \in TopPositions : k <= j) \in SelectedPositions

\* ping_test at rank 0 was used once, query_arp at rank 1 never: both score
\* 3, and greedy returned ping_test
C38_Witness ==
    /\ Returns("apply_exploration_strategy")
    /\ call.exploration_mode = "greedy"
    /\ Len(call.candidates) = 2
    /\ call.candidates[1].tool_name = "ping_test"
    /\ call.candidates[2].tool_name = "query_arp"
    /\ get_tool_usage_count(state, "ping_test") = 1
    /\ get_tool_usage_count(state, "query_arp") = 0
    /\ call.ret[1].tool_name = "ping_test"
    /\ call.ret[1].score = <<6, 2>>

(***************************************************************************)
(* Properties of the trace.                                                *)
(***************************************************************************)
\* seq is the beginning of longer
IsPrefix(seq, longer) ==
    /\ Len(seq) <= Len(longer)
    /\ SubSeq(longer, 1, Len(seq)) = seq

\* C39: after any sequence of start_step and add_action_observation calls
\* the trace has current_step steps, its i-th step has the key "step<i>",
\* and a call only appends: to the list of steps, or to the pairs of the
\* last step, leaving every earlier step as it was; in generate the number
\* of steps of the trace equals the session's step_count at every loop head.
C39_TraceStepsAreConsecutiveAndAppendOnly ==
    /\ [](/\ Len(generator.steps) = generator.current_step
          /\ \A i \in DOMAIN generator.steps : generator.steps[i].key = i
          /\ pc = "loop" => Len(generator.steps) = state.step_count)
    /\ [][ /\ Len(generator'.steps) \in {Len(generator.steps), Len(generator.steps) + 1}
           /\ \A i \in 1 .. (Len(generator.steps) - 1) :
                  generator'.steps[i] = generator.steps[i]
           /\ generator.steps # <<>> =>
                  /\ generator'.steps[Len(generator.steps)].cot = LastStep(generator).cot
                  /\ IsPrefix(LastStep(generator).coa,
                              generator'.steps[Len(generator.steps)].coa)
           /\ Len(generator'.steps) = Len(generator.steps) + 1 /\ generator.steps # <<>> =>
                  generator'.steps[Len(generator.steps)] = LastStep(generator) ]_vars

\* two steps, the first with one pair and the second with two
C39_Witness ==
    /\ pc = "trace"
    /\ generator.current_step = 2
    /\ Len(generator.steps[1].coa) = 1
    /\ Len(generator.steps[2].coa) = 2
    /\ generator.steps[2].key = 2

(***************************************************************************)
(* What a fan-out step records.                                            *)
(***************************************************************************)
\* the identifiers of the list are pairwise different
AllDistinct(ids) == Cardinality({ids[i] : i \in DOMAIN ids}) = Len(ids)

\* C40: in a fan-out step over n >= 2 distinct identifiers the record added
\* to the session holds the arguments and the observation of the first
\* identifier, the finding and the chain entry of the step are computed
\* from the observation of the last identifier, and every call gets the
\* planner's arguments with only the identifier replaced: the planner's
\* own argument map is not modified.
C40_FanOutRecordsFirstAnalysesLast ==
    [][ FanOutStep /\ AllDistinct(generator.known_entities["interfaces"]) =>
          LET ids == generator.known_entities["interfaces"]
              coa == LastStep(generator').coa
              last == coa[Len(coa)].observation
              record == state'.executed_tools[Len(state'.executed_tools)]
              found == state'.findings[Len(state'.findings)]
              entry == state'.diagnostic_chain[Len(state'.diagnostic_chain)]
          IN  /\ Len(ids) >= 2
              /\ record.tool_request = coa[1].action.args
              /\ record.tool_response = coa[1].observation
              /\ GetKey(record.tool_request, "interface_name") = ids[1]
              /\ Len(state'.findings) = Len(state.findings) + 1
              /\ found.finding = IF GetKey(last.dict, "zhuangtai") = "down"
                                 THEN "anomaly" ELSE "normal"
              /\ Len(state'.diagnostic_chain) = Len(state.diagnostic_chain) + 1
              /\ entry.result = summarize_tool_result(last)
              /\ entry.conclusion.text = IF GetKey(last.dict, "zhuangtai") = "down"
                                         THEN "anomaly_interface_status_down"
                                         ELSE "normal_no_anomaly"
              /\ \A i \in DOMAIN coa :
                    coa[i].action.args =
                        << <<"device_name", "device1">>, <<"interface_name", ids[i]>> >> ]_vars

\* eth0 answered up and eth1 down: the record holds eth0 and up, the
\* finding of the step is the anomaly of eth1
C40_Witness ==
    /\ pc = "loop"
    /\ generator.current_step = 2
    /\ generator.known_entities["interfaces"] = <<"eth0", "eth1">>
    /\ Len(generator.steps[2].coa) = 2
    /\ generator.steps[2].coa[2].observation = DictResponse(Dict1("zhuangtai", "down"))
    /\ state.step_count = 1
    /\ state.executed_tools[1].tool_request =
          << <<"device_name", "device1">>, <<"interface_name", "eth0">> >>
    /\ state.executed_tools[1].tool_response = DictResponse(Dict1("zhuangtai", "up"))
    /\ state.findings[1].finding = "anomaly"

====
